---- MODULE Spec2Model ----
(***************************************************************************)
(* Model of the scrabg crawl pipeline: the seed producer                   *)
(* (config_request_producer.py), the fetch stage (requests_worker.py), the *)
(* processing stage (success_worker.py), the article stores                *)
(* (db_manager.py, mongodb_manager.py) and the store pipeline              *)
(* (crawler/pipelines.py).                                                 *)
(*                                                                         *)
(* Text is a sequence of tokens; the token " " is white space.  A URL is   *)
(* text whose first token is an origin ("http://h"); every other text is a *)
(* root-relative reference.  Python dicts are functions whose domain is    *)
(* the set of keys that are present.  A queue message is what json.dumps   *)
(* wrote, or bytes that some other producer put on the list.               *)
(***************************************************************************)
EXTENDS Integers, Sequences, FiniteSets, TLC

VARIABLES
    cfg,        \* the loaded configuration document (config_loader.load_config)
    web,        \* what the network answers: URL -> page key
    max_retries,\* RequestsWorker.max_retries (REQUESTS_MAX_RETRIES)
    hasDb,      \* WorkflowProcessor.db_manager is set and has an engine
    startQ,     \* redis list fetch_spider:start_urls (head = next BRPOP)
    successQ,   \* redis list fetch_spider:success
    dataQ,      \* redis list fetch_spider:data_items
    errorQ,     \* redis list fetch_spider:errors
    seeded,     \* the producer has run
    fw,         \* the fetch worker: loop position and locals
    pw,         \* the processing workers: loop position and locals
    fetchLog,   \* history: what the fetch stage did with each popped message
    procLog,    \* history: what the processing stage did with each popped message
    mysql,      \* MySQL: rows of table articles
    mongo,      \* MongoDB: documents of collection articles
    sw,         \* store clients: position inside save_article / process_item
    saveLog,    \* history: finished save_article calls
    routeLog,   \* history: finished process_item calls
    clock,      \* number of store calls started so far
    spStarted,  \* ConfigSpider: start_requests has run
    spQ,        \* ConfigSpider: the scheduler queue of Scrapy (head = next)
    spLog,      \* history: what ConfigSpider did with each scheduled request
    eh          \* EncodingHandler: the body that is resolved and the results

vars == <<cfg, web, max_retries, hasDb, startQ, successQ, dataQ, errorQ, seeded,
          fw, pw, fetchLog, procLog, mysql, mongo, sw, saveLog, routeLog, clock,
          spStarted, spQ, spLog, eh>>

pipeVars == <<cfg, web, max_retries, hasDb, startQ, successQ, dataQ, errorQ,
              seeded, fw, pw, fetchLog, procLog>>

storeVars == <<mongo, sw, saveLog, routeLog, clock>>

spiderVars == <<spStarted, spQ, spLog, eh>>

-----------------------------------------------------------------------------
(* Bounds *)

\* fetch budget: the fetch worker pops at most this many messages
MaxFetch == 6

\* store calls started in a run of the store specifications
MaxCalls == 3

\* the largest retry budget REQUESTS_MAX_RETRIES sets
MaxRetries == 3

\* the longest response body the encoding handler is given, in segments
MaxBody == 2

\* requests_worker.py: RequestsWorker.__init__(max_retries=3), the default
DefaultRetries == 3

-----------------------------------------------------------------------------
(* Python values *)

\* no body is being resolved
EhOff == [pc |-> "off", content |-> <<>>]

\* None, as a text value
None == <<"\\None">>

\* the empty dict
EmptyDict == <<>>

\* truth value of a text, None or a Python list
Truthy(v) == v # <<>> /\ v # None /\ v # <<"\\list", <<>>>>

\* truth value of a dict
TruthyDict(d) == DOMAIN d # {}

\* dict.get(key, default)
Get(d, k, default) == IF k \in DOMAIN d THEN d[k] ELSE default

\* str.strip(): drop leading and trailing white space
RECURSIVE LStrip(_)
LStrip(s) == IF s # <<>> /\ Head(s) = " " THEN LStrip(Tail(s)) ELSE s

RECURSIVE RStrip(_)
RStrip(s) == IF s # <<>> /\ s[Len(s)] = " " THEN RStrip(SubSeq(s, 1, Len(s) - 1)) ELSE s

Strip(s) == RStrip(LStrip(s))

\* value.strip() if isinstance(value, str) else value
StripIfStr(v) == IF v = None THEN None ELSE Strip(v)

\* the origins of absolute URLs
Origins == {"http://h"}

IsAbsolute(u) == u # <<>> /\ u # None /\ Head(u) \in Origins

\* a join that leaves the reference as it is (sensitivity of C1)
urljoin_raw(base, url) == url

\* urllib.parse.urljoin(base, url)
urljoin(base, url) ==
    IF url = <<>> THEN base
    ELSE IF IsAbsolute(url) THEN url
    ELSE <<Head(base)>> \o url

\* list[:n]
Take(s, n) ==
    IF n >= 0 THEN SubSeq(s, 1, IF n < Len(s) THEN n ELSE Len(s))
    ELSE SubSeq(s, 1, Len(s) + n)

\* json.dumps: the message that is put on a redis list
Dumps(v) == [kind |-> "json", v |-> v]

\* json.loads succeeds on the text json.dumps wrote
Loadable(m) == m.kind \in {"json", "nonobj"}

\* json.loads
Loads(m) == m.v

\* bytes.decode("utf-8") succeeds
Utf8(m) == m.kind # "bytes"

-----------------------------------------------------------------------------
(* Pages: what the selectors of a parsed body match (parsel is a library;   *)
(* a body is known by its key, and Selector(text=body).xpath(e).getall() is *)
(* the list of raw matches the page holds for e)                            *)

HrefExpr == "//a/@href"
TextExpr == "//a/text()"
H1Expr == "//h1/text()"
MissExpr == "//none"

Pages ==
    [list4     |-> (HrefExpr :> << <<"/a">>, <<"/b">>, <<"/c">>, <<"/d">> >>)
                @@ (TextExpr :> << <<"T1">>, <<"T2">>, <<"T3">>, <<"T4">> >>),
     listShort |-> (HrefExpr :> << <<"/a">>, <<"/b">>, <<"/c">> >>)
                @@ (TextExpr :> << <<" ", "T1">>, <<"T2", " ">> >>),
     listBlank |-> (HrefExpr :> << <<"/a">>, <<" ">>, <<"/b">> >>)
                @@ (TextExpr :> << <<"T1">>, <<"T2">>, <<"T3">> >>),
     listDup   |-> (HrefExpr :> << <<"/a">>, <<"/a">> >>)
                @@ (TextExpr :> << <<"T1">> >>),
     listTop   |-> (HrefExpr :> << <<"/a">> >>)
                @@ (TextExpr :> << <<"T1">> >>),
     listSub   |-> (HrefExpr :> << <<"/c">>, <<"/d">> >>)
                @@ (TextExpr :> << <<"S1">>, <<"S2">> >>),
     listGap   |-> (HrefExpr :> << <<"/a">>, <<"/b">>, <<"/c">> >>)
                @@ (TextExpr :> << <<" ">>, <<"T2">> >>),
     item      |-> (H1Expr :> << <<" ", "X", " ">> >>)]

PageKeys == {"list4", "listShort", "listBlank", "listDup", "listTop", "listSub", "listGap", "item"}

\* selector.xpath(expression).getall() / selector.css(expression).getall()
GetAll(body, expression) ==
    IF body \in PageKeys /\ expression \in DOMAIN Pages[body]
    THEN Pages[body][expression] ELSE <<>>

\* a Python list, as a value apart from every text (no token is "\\list")
PyList(xs) == <<"\\list", xs>>

\* the elements of a Python list
Items(l) == l[2]

SeedUrl == <<"http://h", "/">>

ItemUrls == {<<"http://h", p>> : p \in {"/a", "/b", "/c", "/d", "/p2"}}

\* a site: for every URL the page it serves and how the first calls for it
\* end ("timeout", "reqexc", "exc", "http500"); calls after the plan answer
\* 200 with the page
Site(page, plan) == [page |-> page, plan |-> plan]

\* the sites the crawl may meet: the seed is one of the list pages, and the
\* calls for one URL may fail as its plan says
WebOf(listKey, badUrl, plan) ==
    [u \in {SeedUrl} \cup ItemUrls |->
        Site(IF u = SeedUrl THEN listKey ELSE "item",
             IF u = badUrl THEN plan ELSE <<>>)]

ListKeys == {"list4", "listShort", "listBlank", "listDup"}

\* the calls of a request all fail, fail once, raise, or answer 500
Plans ==
    {<<"timeout", "timeout", "timeout">>, <<"reqexc", "reqexc", "reqexc">>,
     <<"timeout", "reqexc", "timeout">>, <<"timeout">>, <<"reqexc", "reqexc">>,
     <<"exc">>, <<"http500">>}

HealthyWebs == {WebOf(k, <<>>, <<>>) : k \in ListKeys}

\* a site of two levels: the seed lists /a, which lists /c and /d
WebDeep ==
    [u \in {SeedUrl} \cup ItemUrls |->
        Site(IF u = SeedUrl THEN "listTop"
             ELSE IF u = <<"http://h", "/a">> THEN "listSub" ELSE "item",
             <<>>)]

FailingWebs ==
    {WebOf("listDup", u, p) : u \in {SeedUrl, <<"http://h", "/a">>}, p \in Plans}

-----------------------------------------------------------------------------
(* Configuration documents *)

Rule(f, e, m) == [fieldName |-> f, expression |-> e, multiple |-> m]

LinkRule(n) == Rule("link", HrefExpr, TRUE) @@ ("maxLinks" :> n)

TitleRule == Rule("title", H1Expr, FALSE)

\* a headersJson text: what json.loads gives for it
JsonText(v) == [ok |-> TRUE, v |-> v]

AcceptEn == ("Accept-Language" :> <<"en">>)

RequestStep ==
    [type |-> "request",
     config |-> [headersMode |-> "json", headersJson |-> JsonText(AcceptEn)]]

LinkStep(rules) ==
    [type |-> "link_extraction", config |-> [linkExtractionRules |-> rules]]

DataStep(rules, code) ==
    [type |-> "data_extraction",
     config |-> [extractionRules |-> rules, nextRequestCustomCode |-> code]]

TaskInfo == [id |-> <<"t1">>, name |-> <<"demo">>, baseUrl |-> SeedUrl]

Config(steps) == [taskInfo |-> TaskInfo, workflowSteps |-> steps]

\* the next-request hooks that the configurations carry as source text
Hooks ==
    {"hook_p2", "hook_abs", "hook_meta", "hook_raise", "hook_nocall", "hook_missing",
     "hook_none"}

\* the end-to-end scenario of the specification
CfgE2E == Config(<<RequestStep, LinkStep(<<LinkRule(2)>>), DataStep(<<TitleRule>>, "")>>)

CfgPaired(n) ==
    Config(<<RequestStep,
             LinkStep(<<Rule("title", TextExpr, TRUE), LinkRule(n)>>),
             DataStep(<<TitleRule>>, "")>>)

CfgHook(code) ==
    Config(<<RequestStep, DataStep(<<TitleRule>>, code), DataStep(<<TitleRule>>, "")>>)

\* two LinkExtraction steps, each with a sibling field, before the data
CfgDeep ==
    Config(<<RequestStep,
             LinkStep(<<Rule("title", TextExpr, TRUE), LinkRule(0)>>),
             LinkStep(<<Rule("section", TextExpr, TRUE), LinkRule(0)>>),
             DataStep(<<TitleRule>>, "")>>)

\* a DataExtraction step that is not the last step and has no hook, and a
\* last step with a hook
CfgMid ==
    Config(<<RequestStep, DataStep(<<Rule("title", TextExpr, FALSE)>>, ""),
             DataStep(<<TitleRule>>, "")>>)

CfgLastHook == Config(<<RequestStep, DataStep(<<TitleRule>>, "hook_abs")>>)

Configs ==
    {CfgE2E} \cup {CfgPaired(n) : n \in 0..3} \cup {CfgHook(h) : h \in Hooks}

-----------------------------------------------------------------------------
(* success_worker.py: WorkflowProcessor, the step machine of the split mode *)


\* an extraction that evaluates the empty expression like any other
\* (sensitivity of C22)
_extract_any(selector, rule, multiple) ==
    LET all == GetAll(selector, Get(rule, "expression", ""))
    IN  IF multiple
        THEN PyList([i \in 1..Len(all) |-> StripIfStr(all[i])])
        ELSE StripIfStr(IF all = <<>> THEN None ELSE all[1])

\* WorkflowProcessor._extract; selector is the parsed body
_extract(selector, rule, multiple) ==
    LET expression == Get(rule, "expression", "")
        all == GetAll(selector, expression)
    IN  IF expression = ""
        THEN IF multiple THEN PyList(<<>>) ELSE <<>>
        ELSE IF multiple
             THEN PyList([i \in 1..Len(all) |-> StripIfStr(all[i])])
             ELSE StripIfStr(IF all = <<>> THEN None ELSE all[1])

\* WorkflowProcessor._parse_headers
RECURSIVE _parse_headers(_)
_parse_headers(steps) ==
    IF steps = <<>> THEN EmptyDict
    ELSE LET c == Get(Head(steps), "config", EmptyDict)
         IN  IF /\ Head(steps).type = "request"
                /\ Get(c, "headersMode", "") = "json"
                /\ "headersJson" \in DOMAIN c
             THEN IF c.headersJson.ok THEN c.headersJson.v ELSE EmptyDict
             ELSE _parse_headers(Tail(steps))

\* WorkflowProcessor.default_headers
default_headers == _parse_headers(cfg.workflowSteps)

\* a search that settles for the first rule (sensitivity of C30)
FirstLinkRule_any(rules) ==
    IF rules = <<>> THEN None ELSE Head(rules) @@ ("maxLinks" :> 0)

\* next((r for r in rules if r.get("fieldName") == "link"), None)
RECURSIVE FirstLinkRule(_)
FirstLinkRule(rules) ==
    IF rules = <<>> THEN None
    ELSE IF Get(Head(rules), "fieldName", "") = "link" THEN Head(rules)
    ELSE FirstLinkRule(Tail(rules))

\* the dict comprehension other_values: field name -> list of values
OtherValues(selector, rules) ==
    LET idx == {i \in 1..Len(rules) : Get(rules[i], "fieldName", "") # "link"}
        names == {rules[i].fieldName : i \in idx}
        last(f) == CHOOSE i \in idx :
                     /\ rules[i].fieldName = f
                     /\ \A j \in idx : rules[j].fieldName = f => j <= i
    IN  [f \in names |-> Items(_extract(selector, rules[last(f)], TRUE))]

\* one context shared by all links and pushed as the last merge left it
\* (sensitivity of C17)
NextContext_shared(context, other_values, idx) ==
    [f \in {g \in DOMAIN other_values : other_values[g] # <<>>} |->
        other_values[f][Len(other_values[f])]] @@ context

\* a pairing that wraps around when the sibling values run out
\* (sensitivity of C27)
NextContext_wrap(context, other_values, idx) ==
    LET fields == {f \in DOMAIN other_values : other_values[f] # <<>>}
        val(f) == other_values[f][((idx - 1) % Len(other_values[f])) + 1]
    IN  [f \in fields |-> val(f)] @@ context

\* the context built for the link at position idx (1-based here)
NextContext(context, other_values, idx) ==
    LET fields == {f \in DOMAIN other_values : other_values[f] # <<>>}
        val(f) == IF idx <= Len(other_values[f])
                  THEN other_values[f][idx]
                  ELSE other_values[f][Len(other_values[f])]
    IN  [f \in fields |-> val(f)] @@ context

\* a truncation that keeps the last max_links links (sensitivity of C2)
Truncate_last(link_values, max_links) ==
    IF max_links # 0 /\ max_links < Len(link_values)
    THEN SubSeq(link_values, Len(link_values) - max_links + 1, Len(link_values))
    ELSE link_values

\* a truncation that lets links through for the first processed record
\* only (sensitivity of C9)
Truncate_once(link_values, max_links) ==
    IF procLog = {} THEN Take(link_values, max_links) ELSE <<>>

\* link_values after "if max_links: link_values = link_values[:max_links]"
Truncate(link_values, max_links) ==
    IF max_links # 0 THEN Take(link_values, max_links) ELSE link_values

\* a link step that tags its requests with its own index (sensitivity of
\* C26)
_handle_link_extraction_same(step, response, index) ==
    LET rules == Get(Get(step, "config", EmptyDict), "linkExtractionRules", <<>>)
        link_rule == FirstLinkRule(rules)
        other_values == OtherValues(response.selector, rules)
        link_values ==
            Truncate(Items(_extract(response.selector, link_rule, TRUE)),
                     Get(link_rule, "maxLinks", 0))
    IN  IF rules = <<>> \/ link_rule = None THEN <<>>
        ELSE [i \in 1..Len(link_values) |->
                [url |-> urljoin(response.url, link_values[i]),
                 method |-> "GET",
                 headers |-> default_headers,
                 meta |-> [workflow_index |-> index,
                           context |-> NextContext(response.context, other_values, i)],
                 dont_filter |-> FALSE]]

\* WorkflowProcessor._handle_link_extraction: the payloads it pushes to the
\* start list, in order
_handle_link_extraction(step, response, index) ==
    LET rules == Get(Get(step, "config", EmptyDict), "linkExtractionRules", <<>>)
        link_rule == FirstLinkRule(rules)
        other_values == OtherValues(response.selector, rules)
        link_values ==
            Truncate(Items(_extract(response.selector, link_rule, TRUE)),
                     Get(link_rule, "maxLinks", 0))
    IN  IF rules = <<>> \/ link_rule = None THEN <<>>
        ELSE [i \in 1..Len(link_values) |->
                [url |-> urljoin(response.url, link_values[i]),
                 method |-> "GET",
                 headers |-> default_headers,
                 meta |-> [workflow_index |-> index + 1,
                           context |-> NextContext(response.context, other_values, i)],
                 dont_filter |-> FALSE]]

\* what the user code of a hook does when it is exec'ed and called:
\* process_request(body, url, data) -> list of descriptors
HookCallable(code) == code \notin {"hook_nocall", "hook_missing"}

HookRaises(code) == code = "hook_raise"

HookResults(code, body, url, data) ==
    CASE code = "hook_p2"   -> << ("url" :> <<"/p2">>) >>
      [] code = "hook_abs"  -> << ("url" :> urljoin(url, <<"/p2">>)) >>
      [] code = "hook_meta" -> << ("url" :> urljoin(url, <<"/p2">>))
                                  @@ ("meta" :> ("workflow_index" :> 0)) >>
      [] OTHER              -> <<>>

\* meta = item.get("meta") or {}; meta.setdefault("workflow_index", next_index)
SetDefaultIndex(item, next_index) ==
    LET meta == Get(item, "meta", EmptyDict)
    IN  IF "workflow_index" \in DOMAIN meta THEN meta
        ELSE meta @@ ("workflow_index" :> next_index)

\* a hook runner that calls process_request whatever it is (sensitivity of
\* C24)
_run_custom_code_called(code, response, next_index, extracted_data) ==
    LET results == HookResults(code, response.body, response.url, extracted_data)
    IN  IF HookRaises(code) \/ ~HookCallable(code)
        THEN [raised |-> TRUE, requests |-> <<>>]
        ELSE [raised |-> FALSE,
              requests |->
                [i \in 1..Len(results) |->
                    [url |-> Get(results[i], "url", None),
                     method |-> Get(results[i], "method", "GET"),
                     headers |-> IF TruthyDict(Get(results[i], "headers", EmptyDict))
                                 THEN results[i].headers ELSE default_headers,
                     meta |-> SetDefaultIndex(results[i], next_index),
                     dont_filter |-> Get(results[i], "dont_filter", FALSE)]]]

\* WorkflowProcessor._run_custom_code
_run_custom_code(code, response, next_index, extracted_data) ==
    LET results == HookResults(code, response.body, response.url, extracted_data)
    IN  IF HookRaises(code) THEN [raised |-> TRUE, requests |-> <<>>]
        ELSE IF ~HookCallable(code) THEN [raised |-> FALSE, requests |-> <<>>]
        ELSE [raised |-> FALSE,
              requests |->
                [i \in 1..Len(results) |->
                    [url |-> Get(results[i], "url", None),
                     method |-> Get(results[i], "method", "GET"),
                     headers |-> IF TruthyDict(Get(results[i], "headers", EmptyDict))
                                 THEN results[i].headers ELSE default_headers,
                     meta |-> SetDefaultIndex(results[i], next_index),
                     dont_filter |-> Get(results[i], "dont_filter", FALSE)]]]

\* the dict data of _handle_data_extraction: field name -> extracted value
ExtractData(selector, rules) ==
    LET names == {Get(rules[i], "fieldName", "") : i \in 1..Len(rules)}
        last(f) == CHOOSE i \in 1..Len(rules) :
                     /\ Get(rules[i], "fieldName", "") = f
                     /\ \A j \in 1..Len(rules) : Get(rules[j], "fieldName", "") = f => j <= i
    IN  [f \in names |->
            _extract(selector, rules[last(f)], Get(rules[last(f)], "multiple", FALSE))]

\* a step that also pushes to the data list the record it hands to the
\* database (sensitivity of C13)
Effects_both(db, data, start, raised) ==
    [db |-> db, data |-> db \o data, start |-> start, raised |-> raised]

\* what processing one record does, in the order the code does it: items
\* handed to _save_to_database, items pushed to the data list, payloads
\* pushed to the start list, and the exception that ends it (if any)
Effects(db, data, start, raised) ==
    [db |-> db, data |-> data, start |-> start, raised |-> raised]

NoEffects == Effects(<<>>, <<>>, <<>>, "")

\* a data step that looks at its position only when it routes the record
\* (sensitivity of C28)
_handle_data_extraction_last(step, response, index) ==
    LET config == Get(step, "config", EmptyDict)
        data == ExtractData(response.selector, Get(config, "extractionRules", <<>>))
        item == [task_id |-> Get(cfg.taskInfo, "id", None),
                 task_name |-> Get(cfg.taskInfo, "name", None),
                 source_url |-> response.url,
                 context |-> response.context,
                 data |-> data]
        custom_code == Get(config, "nextRequestCustomCode", "")
        has_next_request == custom_code # ""
        toDb == index = Len(cfg.workflowSteps) - 1 /\ hasDb
        hook == _run_custom_code(custom_code, response, index + 1, data)
    IN  Effects(IF toDb THEN <<item>> ELSE <<>>,
                IF toDb THEN <<>> ELSE <<item>>,
                IF has_next_request /\ ~hook.raised THEN hook.requests ELSE <<>>,
                IF has_next_request /\ hook.raised THEN "hook raised" ELSE "")

\* WorkflowProcessor._handle_data_extraction; index counts from 0
_handle_data_extraction(step, response, index) ==
    LET config == Get(step, "config", EmptyDict)
        data == ExtractData(response.selector, Get(config, "extractionRules", <<>>))
        item == [task_id |-> Get(cfg.taskInfo, "id", None),
                 task_name |-> Get(cfg.taskInfo, "name", None),
                 source_url |-> response.url,
                 context |-> response.context,
                 data |-> data]
        is_last_step == index = Len(cfg.workflowSteps) - 1
        custom_code == Get(config, "nextRequestCustomCode", "")
        has_next_request == custom_code # ""
        toDb == is_last_step /\ ~has_next_request /\ hasDb
        hook == _run_custom_code(custom_code, response, index + 1, data)
    IN  Effects(IF toDb THEN <<item>> ELSE <<>>,
                IF toDb THEN <<>> ELSE <<item>>,
                IF has_next_request /\ ~hook.raised THEN hook.requests ELSE <<>>,
                IF has_next_request /\ hook.raised THEN "hook raised" ELSE "")

\* a step machine that takes an index behind the last step for the last
\* step (sensitivity of C32)
RECURSIVE _advance_clamp(_, _)
_advance_clamp(response, index) ==
    LET at == IF index >= Len(cfg.workflowSteps) THEN Len(cfg.workflowSteps) - 1
              ELSE index
        step == cfg.workflowSteps[at + 1]
        step_type == Get(step, "type", "")
    IN  CASE step_type = "link_extraction" ->
               Effects(<<>>, <<>>, _handle_link_extraction(step, response, at), "")
          [] step_type = "data_extraction" ->
               _handle_data_extraction(step, response, at)
          [] OTHER ->
               IF at + 1 >= Len(cfg.workflowSteps) THEN NoEffects
               ELSE _advance_clamp(response, at + 1)

\* a step machine in which a Request step asks for the page once more
\* (sensitivity of C31)
_advance_refetch(response, index) ==
    IF index >= Len(cfg.workflowSteps) THEN NoEffects
    ELSE LET step == cfg.workflowSteps[index + 1]
             step_type == Get(step, "type", "")
         IN  CASE step_type = "link_extraction" ->
                    Effects(<<>>, <<>>, _handle_link_extraction(step, response, index), "")
               [] step_type = "data_extraction" ->
                    _handle_data_extraction(step, response, index)
               [] OTHER ->
                    Effects(<<>>, <<>>,
                            <<[url |-> response.url, method |-> "GET",
                               headers |-> default_headers,
                               meta |-> [workflow_index |-> index + 1,
                                         context |-> response.context],
                               dont_filter |-> FALSE]>>, "")

\* a step machine that goes on to the next step after a link step
\* (sensitivity of C29)
RECURSIVE _advance_through(_, _)
_advance_through(response, index) ==
    IF index >= Len(cfg.workflowSteps) THEN NoEffects
    ELSE LET step == cfg.workflowSteps[index + 1]
             step_type == Get(step, "type", "")
             rest == _advance_through(response, index + 1)
         IN  CASE step_type = "link_extraction" ->
                    Effects(rest.db, rest.data,
                            _handle_link_extraction(step, response, index) \o rest.start,
                            rest.raised)
               [] step_type = "data_extraction" ->
                    _handle_data_extraction(step, response, index)
               [] OTHER -> rest

\* WorkflowProcessor._advance; index counts from 0
RECURSIVE _advance(_, _)
_advance(response, index) ==
    IF index >= Len(cfg.workflowSteps) THEN NoEffects
    ELSE LET step == cfg.workflowSteps[index + 1]
             step_type == Get(step, "type", "")
         IN  CASE step_type = "request" -> _advance(response, index + 1)
               [] step_type = "link_extraction" ->
                    Effects(<<>>, <<>>, _handle_link_extraction(step, response, index), "")
               [] step_type = "data_extraction" ->
                    _handle_data_extraction(step, response, index)
               [] OTHER -> _advance(response, index + 1)

\* WorkflowProcessor.process_record
process_record(record) ==
    LET meta == Get(record, "meta", EmptyDict)
        workflow_index == Get(meta, "workflow_index", 0)
        context == Get(meta, "context", EmptyDict)
        response == [selector |-> Get(record, "body", ""),
                     url |-> Get(record, "url", None),
                     body |-> Get(record, "body", ""),
                     context |-> context]
    IN  _advance(response, workflow_index)

-----------------------------------------------------------------------------
(* hash_helper.py, db_manager.py, mongodb_manager.py: the article stores *)

\* HashHelper.md5: the digest of a text, told apart from the text itself
\* (no two texts of the model share a digest)
md5(text) == <<"md5">> \o text

\* HashHelper.get_link_hash
get_link_hash(link) == IF Truthy(link) THEN md5(link) ELSE <<>>

\* SELECT id FROM articles WHERE link_hash = :link_hash LIMIT 1 and
\* collection.find_one({"link_hash": link_hash}): the ids the query may give
\* (any matching row: the query states no order)
SelectIds(rows, link_hash) ==
    {rows[i].id : i \in {j \in 1..Len(rows) : rows[j].link_hash = link_hash}}

\* an existence check that finds nothing (sensitivity of C3)
Existing_none(rows, link_hash) == {}

\* the existence check of save_article is made only for a non-empty hash
Existing(rows, link_hash) ==
    IF link_hash # <<>> THEN SelectIds(rows, link_hash) ELSE {}

\* INSERT INTO articles(...) / collection.insert_one(document): the id is
\* lastrowid, or the new ObjectId
InsertRow(rows, link, title) ==
    Append(rows, [id |-> Len(rows) + 1, link |-> link,
                  link_hash |-> get_link_hash(link), title |-> title])

\* WorkflowProcessor._save_to_database: the arguments it passes to save_article
SaveArgs(item) ==
    LET link0 == Get(item.context, "link", None)
        title0 == Get(item.data, "title", None)
        title1 == Get(item.context, "title", None)
    IN  [link |-> IF Truthy(link0) THEN link0 ELSE item.source_url,
         title |-> IF Truthy(title0) THEN title0
                   ELSE IF Truthy(title1) THEN title1 ELSE <<>>]

-----------------------------------------------------------------------------
(* config_request_producer.py: the seed producer *)

\* load_config: the document, or raised when a required section is missing
load_config(data) ==
    [raised |-> "taskInfo" \notin DOMAIN data \/ "workflowSteps" \notin DOMAIN data,
     data |-> data]

\* a builder that checks nothing (sensitivity of C20)
build_initial_request_unchecked(config) ==
    [raised |-> FALSE,
     payload |->
       [url |-> Get(Get(config, "taskInfo", EmptyDict), "baseUrl", None),
        method |-> "GET",
        headers |-> EmptyDict,
        meta |-> [workflow_index |-> 0,
                  context |-> [task_id |-> None, task_name |-> None]],
        dont_filter |-> FALSE]]

\* a builder that sends no headers (sensitivity of C21)
build_initial_request_bare(config) ==
    LET task_info == Get(config, "taskInfo", EmptyDict)
        steps == Get(config, "workflowSteps", <<>>)
        request_cfg == Get(steps[1], "config", EmptyDict)
        url0 == Get(request_cfg, "url", None)
        url == IF Truthy(url0) THEN url0 ELSE Get(task_info, "baseUrl", None)
    IN  IF steps = <<>> \/ Get(steps[1], "type", "") # "request" \/ ~Truthy(url)
        THEN [raised |-> TRUE, payload |-> EmptyDict]
        ELSE [raised |-> FALSE,
              payload |->
                [url |-> url,
                 method |-> Get(request_cfg, "method", "GET"),
                 headers |-> EmptyDict,
                 meta |-> [workflow_index |-> 0,
                           context |-> [task_id |-> Get(task_info, "id", None),
                                        task_name |-> Get(task_info, "name", None)]],
                 dont_filter |-> FALSE]]

\* build_initial_request: the payload, or raised when the document is unusable
build_initial_request(config) ==
    LET task_info == Get(config, "taskInfo", EmptyDict)
        base_url == Get(task_info, "baseUrl", None)
        steps == Get(config, "workflowSteps", <<>>)
        first_step == steps[1]
        request_cfg == Get(first_step, "config", EmptyDict)
        jsonHeaders == /\ Get(request_cfg, "headersMode", "") = "json"
                       /\ "headersJson" \in DOMAIN request_cfg
        url0 == Get(request_cfg, "url", None)
        url == IF Truthy(url0) THEN url0 ELSE base_url
        bad == [raised |-> TRUE, payload |-> EmptyDict]
    IN  IF steps = <<>> THEN bad
        ELSE IF Get(first_step, "type", "") # "request" THEN bad
        ELSE IF jsonHeaders /\ ~request_cfg.headersJson.ok THEN bad
        ELSE IF ~Truthy(url) THEN bad
        ELSE [raised |-> FALSE,
              payload |->
                [url |-> url,
                 method |-> Get(request_cfg, "method", "GET"),
                 headers |-> IF jsonHeaders THEN request_cfg.headersJson.v ELSE EmptyDict,
                 meta |-> [workflow_index |-> 0,
                           context |-> [task_id |-> Get(task_info, "id", None),
                                        task_name |-> Get(task_info, "name", None)]],
                 dont_filter |-> FALSE]]

\* main(): load the document, build the seed, lpush it to the start list
Produce ==
    /\ ~seeded
    /\ seeded' = TRUE
    /\ LET config == load_config(cfg)
           r == build_initial_request(config.data)
       IN  startQ' = IF config.raised \/ r.raised
                     THEN startQ
                     ELSE Append(startQ, Dumps(r.payload))
    /\ UNCHANGED <<cfg, web, max_retries, hasDb, successQ, dataQ, errorQ, fw, pw, fetchLog,
                   procLog, mysql>>
    /\ UNCHANGED <<storeVars, spiderVars>>

-----------------------------------------------------------------------------
(* requests_worker.py: RequestsWorker, the fetch stage *)

\* response = None
NoResponse == [got |-> FALSE, status |-> 0, headers |-> EmptyDict, body |-> ""]

Response(status, body) ==
    [got |-> TRUE, status |-> status, headers |-> ("Server" :> <<"s">>), body |-> body]

\* requests.Response.__bool__ is Response.ok: no response, or a 4xx/5xx
\* status, is false
ResponseTruthy(r) == r.got /\ r.status < 400

FwIdle == [pc |-> "idle", data |-> Dumps(EmptyDict), attempt |-> 0,
           response |-> NoResponse, error |-> None]

\* what the call of session.get/post/request of pass number attempt (from
\* 0) does: answer, or raise Timeout, another RequestException, or some
\* other exception.  A URL without a scheme raises MissingSchema (a
\* RequestException) every time; an unknown URL answers 404.
Outcome(url, attempt) ==
    IF ~IsAbsolute(url) THEN [kind |-> "reqexc", response |-> NoResponse]
    ELSE IF url \notin DOMAIN web THEN [kind |-> "response", response |-> Response(404, "")]
    ELSE IF attempt < Len(web[url].plan)
         THEN IF web[url].plan[attempt + 1] = "http500"
              THEN [kind |-> "response", response |-> Response(500, "")]
              ELSE [kind |-> web[url].plan[attempt + 1], response |-> NoResponse]
    ELSE [kind |-> "response", response |-> Response(200, web[url].page)]

\* the error text an attempt leaves in the local variable error
ErrorText(kind) ==
    CASE kind = "timeout" -> <<"timeout">>
      [] kind = "reqexc"  -> <<"request error">>
      [] OTHER            -> <<"unknown error">>

\* the record _process_request builds after the retry loop
FetchRecord(payload, response, error) ==
    [url |-> payload.url,
     status |-> IF ResponseTruthy(response) THEN response.status ELSE 0,
     headers |-> IF ResponseTruthy(response) THEN response.headers ELSE EmptyDict,
     body |-> IF ResponseTruthy(response) THEN response.body ELSE "",
     meta |-> Get(payload, "meta", EmptyDict),
     error |-> IF Truthy(error) THEN error ELSE None]

\* a loop with one pass more (sensitivity of C7)
InRange_more(attempt) == attempt <= max_retries

\* for attempt in range(self.max_retries): is there a pass number attempt
InRange(attempt) == attempt < max_retries

\* how many times this message was handled before
Seen(log, m) == Cardinality({e \in log : e.in = m})

FetchLogged(m, fate, attempts, out) ==
    fetchLog' = fetchLog \cup
        {[in |-> m, fate |-> fate, attempts |-> attempts, out |-> out,
          k |-> Seen(fetchLog, m)]}

\* run_forever: brpop(start_key)
FetchPop ==
    /\ fw.pc = "idle"
    /\ startQ # <<>>
    /\ Cardinality(fetchLog) < MaxFetch
    /\ fw' = [FwIdle EXCEPT !.pc = "got", !.data = Head(startQ)]
    /\ startQ' = Tail(startQ)
    /\ UNCHANGED <<cfg, web, max_retries, hasDb, successQ, dataQ, errorQ, seeded, pw, fetchLog,
                   procLog, mysql>>
    /\ UNCHANGED <<storeVars, spiderVars>>

\* run_forever: json.loads(data), and _process_request up to the retry
\* loop.  An exception is printed by run_forever and the loop goes on; a
\* payload without url is skipped.
FetchLoad ==
    /\ fw.pc = "got"
    /\ IF fw.data.kind # "json"
       THEN /\ FetchLogged(fw.data, "raised", 0, <<>>)
            /\ fw' = FwIdle
       ELSE IF ~Truthy(Get(Loads(fw.data), "url", None))
       THEN /\ FetchLogged(fw.data, "skipped", 0, <<>>)
            /\ fw' = FwIdle
       ELSE /\ fw' = [fw EXCEPT !.pc = IF InRange(0) THEN "try" ELSE "push"]
            /\ UNCHANGED fetchLog
    /\ UNCHANGED <<cfg, web, max_retries, hasDb, startQ, successQ, dataQ, errorQ, seeded, pw,
                   procLog, mysql>>
    /\ UNCHANGED <<storeVars, spiderVars>>

\* _process_request: one pass of "for attempt in range(self.max_retries)"
FetchAttempt ==
    /\ fw.pc = "try"
    /\ LET o == Outcome(Loads(fw.data).url, fw.attempt)
       IN
         fw' = IF o.kind = "response"
               THEN [fw EXCEPT !.pc = "push", !.attempt = @ + 1,
                               !.response = o.response]
               ELSE [fw EXCEPT !.attempt = @ + 1,
                               !.error = ErrorText(o.kind),
                               !.pc = IF o.kind # "exc" /\ InRange(fw.attempt + 1)
                                      THEN "try" ELSE "push"]
    /\ UNCHANGED <<cfg, web, max_retries, hasDb, startQ, successQ, dataQ, errorQ, seeded, pw,
                   fetchLog, procLog, mysql>>
    /\ UNCHANGED <<storeVars, spiderVars>>

\* _process_request: build the record and lpush it to the success list
FetchPush ==
    /\ fw.pc = "push"
    /\ LET record == FetchRecord(Loads(fw.data), fw.response, fw.error)
       IN  /\ successQ' = Append(successQ, Dumps(record))
           /\ FetchLogged(fw.data, "pushed", fw.attempt, <<record>>)
    /\ fw' = FwIdle
    /\ UNCHANGED <<cfg, web, max_retries, hasDb, startQ, dataQ, errorQ, seeded, pw,
                   procLog, mysql>>
    /\ UNCHANGED <<storeVars, spiderVars>>

-----------------------------------------------------------------------------
(* success_worker.py: WorkflowProcessor.run_forever, the processing stage *)

ProcWorkers == DOMAIN pw

PwIdle == [pc |-> "idle", data |-> Dumps(EmptyDict)]

DumpsAll(xs) == [i \in 1..Len(xs) |-> Dumps(xs[i])]

\* the entry run_forever pushes to the error list for a failed message
ErrorEntry(reason, data) == [error |-> reason, payload |-> data]

\* the entry _save_to_database pushes when save_article raises
DbErrorEntry(item) == [error |-> <<"Database save failed">>, item |-> item]

\* DatabaseManager.save_article as one transaction run alone: the rows after it
SavedRows(rows, args) ==
    IF Existing(rows, get_link_hash(args.link)) # {} THEN rows
    ELSE InsertRow(rows, args.link, args.title)

\* the exception json.loads or process_record ends with ("" when none)
Failure(data) ==
    IF ~Loadable(data) THEN "not json"
    ELSE IF data.kind # "json" THEN "not an object"
    ELSE process_record(Loads(data)).raised

\* what process_record did before it ended
Done(data) ==
    IF data.kind = "json" THEN process_record(Loads(data)) ELSE NoEffects

\* a pop that leaves the message on the list (sensitivity of C19)
brpop_peek(queue) == queue

\* RedisManager.brpop: the list after BRPOP has taken its next message; the
\* server does it as one step
brpop(queue) == Tail(queue)

\* run_forever: brpop([success_key])
SuccessPop(w) ==
    /\ pw[w].pc = "idle"
    /\ successQ # <<>>
    /\ pw' = [pw EXCEPT ![w] = [pc |-> "got", data |-> Head(successQ)]]
    /\ successQ' = brpop(successQ)
    /\ UNCHANGED <<cfg, web, max_retries, hasDb, startQ, dataQ, errorQ, seeded, fw, fetchLog,
                   procLog, mysql>>
    /\ UNCHANGED <<storeVars, spiderVars>>

\* run_forever: the try block (json.loads, process_record) and the handler.
\* The handler decodes the raw bytes; when that raises, the exception
\* leaves run_forever and the worker ends.
SuccessProcess(w) ==
    /\ pw[w].pc = "got"
    /\ LET data == pw[w].data
           eff == Done(data)
           failed == Failure(data) # ""
           crashed == failed /\ ~Utf8(data)
       IN  \E dbOk \in (IF eff.db # <<>> THEN BOOLEAN ELSE {TRUE}) :
             LET errs == (IF eff.db # <<>> /\ ~dbOk
                          THEN <<DbErrorEntry(eff.db[1])>> ELSE <<>>)
                         \o (IF failed /\ ~crashed
                             THEN <<ErrorEntry(Failure(data), data)>> ELSE <<>>)
             IN  /\ mysql' = IF eff.db # <<>> /\ dbOk
                             THEN SavedRows(mysql, SaveArgs(eff.db[1])) ELSE mysql
                 /\ dataQ' = dataQ \o DumpsAll(eff.data)
                 /\ startQ' = startQ \o DumpsAll(eff.start)
                 /\ errorQ' = errorQ \o errs
                 /\ procLog' = procLog \cup
                        {[in |-> data, out |-> eff, errs |-> errs, crashed |-> crashed,
                          k |-> Seen(procLog, data), w |-> w]}
                 /\ pw' = [pw EXCEPT ![w] =
                              [PwIdle EXCEPT !.pc = IF crashed THEN "crashed" ELSE "idle"]]
    /\ UNCHANGED <<cfg, web, max_retries, hasDb, successQ, seeded, fw, fetchLog>>
    /\ UNCHANGED <<storeVars, spiderVars>>

-----------------------------------------------------------------------------
(* Other producers: anything may have been put on a redis list *)

\* text that is not JSON, bytes that are not UTF-8, JSON that is no object
Malformed == {[kind |-> k, v |-> EmptyDict] : k \in {"text", "bytes", "nonobj"}}

\* a request without url
NoUrl == Dumps([method |-> "GET"])

\* a fetch record of the seed page that is delivered once more
Replayed ==
    Dumps(FetchRecord(build_initial_request(CfgE2E).payload,
                      Response(200, "listDup"), None))

\* what the start and the success list hold when the pipeline starts
Leftovers ==
    {[start |-> <<>>, success |-> <<>>]}
    \cup {[start |-> <<m>>, success |-> <<>>] : m \in Malformed \cup {NoUrl}}
    \cup {[start |-> <<>>, success |-> <<m>>] : m \in Malformed \cup {Replayed}}

-----------------------------------------------------------------------------
(* The split pipeline: producer, fetch worker, processing workers *)

\* the runs that are checked: every configuration on every healthy site,
\* the end-to-end configuration on the failing sites, and on lists that
\* hold a message of another producer
Scenarios ==
    {[cfg |-> c, web |-> w, retries |-> DefaultRetries,
      left |-> [start |-> <<>>, success |-> <<>>]] :
        c \in Configs, w \in HealthyWebs}
    \cup {[cfg |-> CfgE2E, web |-> w, retries |-> n,
           left |-> [start |-> <<>>, success |-> <<>>]] :
        w \in FailingWebs, n \in 0..MaxRetries}
    \cup {[cfg |-> CfgHook("hook_p2"), web |-> WebOf("listDup", <<>>, <<>>),
           retries |-> n, left |-> [start |-> <<>>, success |-> <<>>]] :
        n \in 0..MaxRetries}
    \cup {[cfg |-> CfgE2E, web |-> WebOf("listDup", <<>>, <<>>),
           retries |-> DefaultRetries, left |-> l] :
        l \in Leftovers}
    \cup {[cfg |-> CfgDeep, web |-> WebDeep, retries |-> DefaultRetries,
           left |-> [start |-> <<>>, success |-> <<>>]]}
    \cup {[cfg |-> c, web |-> WebOf("list4", <<>>, <<>>), retries |-> DefaultRetries,
           left |-> [start |-> <<>>, success |-> <<>>]] : c \in {CfgMid, CfgLastHook}}

InitOf(scenarios, workers) ==
    /\ \E sc \in scenarios :
         /\ cfg = sc.cfg
         /\ web = sc.web
         /\ max_retries = sc.retries
         /\ startQ = sc.left.start
         /\ successQ = sc.left.success
    /\ hasDb \in BOOLEAN
    /\ dataQ = <<>>
    /\ errorQ = <<>>
    /\ seeded = FALSE
    /\ fw = FwIdle
    /\ pw = [w \in workers |-> PwIdle]
    /\ fetchLog = {}
    /\ procLog = {}
    /\ mysql = <<>>
    /\ mongo = <<>>
    /\ sw = <<>>
    /\ saveLog = {}
    /\ routeLog = {}
    /\ clock = 0
    /\ spStarted = FALSE
    /\ spQ = <<>>
    /\ spLog = {}
    /\ eh = EhOff

InitPipe(workers) == InitOf(Scenarios, workers)

Init == InitPipe({"p1"})

Next ==
    \/ Produce
    \/ FetchPop
    \/ FetchLoad
    \/ FetchAttempt
    \/ FetchPush
    \/ \E w \in ProcWorkers : SuccessPop(w)
    \/ \E w \in ProcWorkers : SuccessProcess(w)

Spec == Init /\ [][Next]_vars

\* the split pipeline with two processing workers on one success list, the
\* lists empty at the start
InitWorkers ==
    /\ InitPipe({"p1", "p2"})
    /\ startQ = <<>>
    /\ successQ = <<>>

SpecWorkers == InitWorkers /\ [][Next]_vars

\* documents the producer is started on: a request step with and without a
\* url of its own, a task with and without baseUrl, no steps, a first step
\* of another type, a missing section
RequestStepUrl(url) ==
    [type |-> "request",
     config |-> [url |-> url, headersMode |-> "json", headersJson |-> JsonText(AcceptEn)]]

\* header sections of a request step: another map, the empty map, a mode
\* that is not json
TwoHeaders == ("Accept-Language" :> <<"fr">>) @@ ("X-Token" :> <<"k">>)

RequestStepHeaders(mode, headers) ==
    [type |-> "request",
     config |-> [headersMode |-> mode, headersJson |-> JsonText(headers)]]

TaskNoBase == [id |-> <<"t1">>, name |-> <<"demo">>]

TaskEmptyBase == [id |-> <<"t1">>, name |-> <<"demo">>, baseUrl |-> <<>>]

TaskInfos == {TaskInfo, TaskNoBase, TaskEmptyBase}

StepLists ==
    {<<>>,
     <<LinkStep(<<LinkRule(2)>>), DataStep(<<TitleRule>>, "")>>,
     <<DataStep(<<TitleRule>>, "")>>}
    \cup {<<r, LinkStep(<<LinkRule(2)>>), DataStep(<<TitleRule>>, "")>> :
            r \in {RequestStep, RequestStepUrl(SeedUrl), RequestStepUrl(<<>>),
                   RequestStepHeaders("json", TwoHeaders),
                   RequestStepHeaders("json", EmptyDict),
                   RequestStepHeaders("keyValue", TwoHeaders)}}

Documents ==
    {[taskInfo |-> t, workflowSteps |-> steps] : t \in TaskInfos, steps \in StepLists}
    \cup {[taskInfo |-> t] : t \in TaskInfos}
    \cup {[workflowSteps |-> steps] : steps \in StepLists}

ProducerScenarios ==
    {[cfg |-> c, web |-> WebOf("list4", <<>>, <<>>), retries |-> DefaultRetries,
      left |-> [start |-> <<>>, success |-> <<>>]] : c \in Documents}

\* the producer started on any of the documents, the workers behind it
InitProducer == InitOf(ProducerScenarios, {"p1"})

SpecProducer == InitProducer /\ [][Next]_vars

-----------------------------------------------------------------------------
(* Shutdown: KeyboardInterrupt, which Python raises in the main thread at *)
(* the statement that is being run when SIGINT arrives                    *)

\* the fetch worker is interrupted: wherever the exception is raised inside
\* the try block of run_forever, "except KeyboardInterrupt: break" ends the
\* loop (no handler of _process_request catches it); a worker that holds a
\* popped message ends without having pushed its record
FetchInterrupt ==
    /\ fw.pc \in {"idle", "got", "try", "push"}
    /\ fw' = [fw EXCEPT !.pc = IF fw.pc = "idle" THEN "stopped" ELSE "aborted"]
    /\ UNCHANGED <<cfg, web, max_retries, hasDb, startQ, successQ, dataQ, errorQ,
                   seeded, pw, fetchLog, procLog, mysql>>
    /\ UNCHANGED <<storeVars, spiderVars>>

\* a processing worker is interrupted: run_forever has no handler for
\* KeyboardInterrupt ("except Exception" does not catch it), the exception
\* leaves the loop; a worker that holds a popped message ends without
\* having processed it
SuccessInterrupt(w) ==
    /\ pw[w].pc \in {"idle", "got"}
    /\ pw' = [pw EXCEPT ![w].pc = IF pw[w].pc = "idle" THEN "stopped" ELSE "aborted"]
    /\ UNCHANGED <<cfg, web, max_retries, hasDb, startQ, successQ, dataQ, errorQ,
                   seeded, fw, fetchLog, procLog, mysql>>
    /\ UNCHANGED <<storeVars, spiderVars>>

\* the split pipeline with workers that may be interrupted
NextShutdown ==
    \/ Next
    \/ FetchInterrupt
    \/ \E w \in ProcWorkers : SuccessInterrupt(w)

SpecShutdown == Init /\ [][NextShutdown]_vars

-----------------------------------------------------------------------------
(* crawler/spiders/config_spider.py: ConfigSpider, the step machine of the *)
(* single-process mode, run by Scrapy                                      *)

\* the elements of a set of numbers, in increasing order
RECURSIVE Ascending(_)
Ascending(S) ==
    IF S = {} THEN <<>>
    ELSE LET m == CHOOSE x \in S : \A y \in S : x <= y
         IN  <<m>> \o Ascending(S \ {m})

\* scrapy.Request(url=...) raises for a url that is no text or has no scheme
RequestRaises(url) == ~IsAbsolute(url)

\* the context ConfigSpider builds for the link at position idx (1-based
\* here): sibling values that are empty are left out
SpiderContext(other_values, idx) ==
    LET val(f) == IF idx <= Len(other_values[f])
                  THEN other_values[f][idx]
                  ELSE other_values[f][Len(other_values[f])]
        fields == {f \in DOMAIN other_values :
                      other_values[f] # <<>> /\ Truthy(val(f))}
    IN  [f \in fields |-> StripIfStr(val(f))]

\* ConfigSpider._handle_link_extraction: the requests it yields, in order;
\* a link that is empty after strip() is skipped
spider_handle_link_extraction(step, response, next_index) ==
    LET rules == Get(Get(step, "config", EmptyDict), "linkExtractionRules", <<>>)
        link_rule == FirstLinkRule(rules)
        other_values == OtherValues(response.selector, rules)
        link_values ==
            Truncate(Items(_extract(response.selector, link_rule, TRUE)),
                     Get(link_rule, "maxLinks", 0))
        kept == Ascending({i \in 1..Len(link_values) : Truthy(Strip(link_values[i]))})
    IN  IF rules = <<>> \/ link_rule = None THEN <<>>
        ELSE [k \in 1..Len(kept) |->
                [url |-> urljoin(response.url, Strip(link_values[kept[k]])),
                 method |-> "GET",
                 headers |-> EmptyDict,
                 meta |-> SpiderContext(other_values, kept[k])
                          @@ ("workflow_index" :> next_index),
                 dont_filter |-> TRUE]]

\* ConfigSpider._run_custom_code: every descriptor becomes a scrapy.Request
\* tagged with next_index; the list is returned when all were built
spider_run_custom_code(code, response, next_index, extracted_data) ==
    LET results == HookResults(code, response.body, response.url, extracted_data)
    IN  IF HookRaises(code) THEN [raised |-> TRUE, requests |-> <<>>]
        ELSE IF ~HookCallable(code) THEN [raised |-> FALSE, requests |-> <<>>]
        ELSE IF \E i \in 1..Len(results) : RequestRaises(Get(results[i], "url", None))
        THEN [raised |-> TRUE, requests |-> <<>>]
        ELSE [raised |-> FALSE,
              requests |->
                [i \in 1..Len(results) |->
                    [url |-> results[i].url,
                     method |-> Get(results[i], "method", "GET"),
                     headers |-> Get(results[i], "headers", EmptyDict),
                     meta |-> ("workflow_index" :> next_index),
                     dont_filter |-> FALSE]]]

Yield(items, requests, raised) ==
    [items |-> items, requests |-> requests, raised |-> raised]

\* ConfigSpider._handle_data_extraction: the item, then the hook's requests
spider_handle_data_extraction(step, response, next_index) ==
    LET config == Get(step, "config", EmptyDict)
        data == ExtractData(response.selector, Get(config, "extractionRules", <<>>))
        title0 == Get(response.meta, "title", None)
        link0 == Get(response.meta, "link", None)
        item == [task_id |-> Get(cfg.taskInfo, "id", None),
                 title |-> IF Truthy(title0) THEN title0 ELSE Get(data, "title", None),
                 link |-> IF Truthy(link0) THEN link0 ELSE response.url,
                 content |-> Get(data, "content", None),
                 source_url |-> response.url,
                 extra |-> data]
        custom_code == Get(config, "nextRequestCustomCode", "")
        hook == spider_run_custom_code(custom_code, response, next_index, data)
    IN  IF custom_code = "" THEN Yield(<<item>>, <<>>, FALSE)
        ELSE Yield(<<item>>, hook.requests, hook.raised)

\* ConfigSpider.handle_response, for the step index of the response's meta
RECURSIVE handle_response(_, _)
handle_response(response, index) ==
    IF index >= Len(cfg.workflowSteps) THEN Yield(<<>>, <<>>, FALSE)
    ELSE LET step == cfg.workflowSteps[index + 1]
             step_type == Get(step, "type", "")
         IN  CASE step_type = "link_extraction" ->
                    Yield(<<>>, spider_handle_link_extraction(step, response, index + 1),
                          FALSE)
               [] step_type = "data_extraction" ->
                    spider_handle_data_extraction(step, response, index + 1)
               [] step_type = "request" -> handle_response(response, index + 1)
               [] OTHER -> Yield(<<>>, <<>>, FALSE)

\* ConfigSpider.start_requests: the request for taskInfo.baseUrl
SpiderStart ==
    /\ ~spStarted
    /\ spStarted' = TRUE
    /\ LET base_url == Get(cfg.taskInfo, "baseUrl", None)
       IN  spQ' = IF Truthy(base_url) /\ ~RequestRaises(base_url)
                  THEN <<[url |-> base_url, method |-> "GET",
                          headers |-> default_headers,
                          meta |-> ("workflow_index" :> 0), dont_filter |-> FALSE]>>
                  ELSE <<>>
    /\ UNCHANGED <<spLog, eh>>
    /\ UNCHANGED <<pipeVars, mysql, storeVars>>

\* Scrapy takes the next request, downloads it and, for an answer with
\* status 200, calls handle_response; what the callback yields is scheduled
SpiderCrawl ==
    /\ spQ # <<>>
    /\ LET request == Head(spQ)
           o == Outcome(request.url, 0)
           called == o.kind = "response" /\ o.response.status = 200
           response == [selector |-> o.response.body, url |-> request.url,
                        body |-> o.response.body, meta |-> request.meta]
           out == IF called
                  THEN handle_response(response, Get(request.meta, "workflow_index", 0))
                  ELSE Yield(<<>>, <<>>, FALSE)
       IN  /\ spQ' = Tail(spQ) \o out.requests
           /\ spLog' = spLog \cup
                 {[in |-> request, called |-> called, body |-> o.response.body,
                   out |-> out, k |-> Seen(spLog, request)]}
    /\ UNCHANGED <<spStarted, eh>>
    /\ UNCHANGED <<pipeVars, mysql, storeVars>>

\* the split pipeline and the spider, each on its own queues, with the same
\* configuration and the same site
NextEngines ==
    \/ Next
    \/ SpiderStart
    \/ SpiderCrawl

SpecEngines == Init /\ [][NextEngines]_vars

\* configurations whose rules are incomplete: rules with an empty
\* expression beside the title rule, a link rule with an empty expression
CfgEmptyExpr ==
    Config(<<RequestStep,
             LinkStep(<<Rule("note", "", TRUE), LinkRule(2)>>),
             DataStep(<<TitleRule, Rule("content", "", FALSE), Rule("tags", "", TRUE)>>,
                      "")>>)

CfgEmptyLink ==
    Config(<<RequestStep,
             LinkStep(<<Rule("title", TextExpr, TRUE),
                        Rule("link", "", TRUE) @@ ("maxLinks" :> 2)>>),
             DataStep(<<TitleRule>>, "")>>)

\* link steps without a rule named link: a sibling rule only, no rule at all
CfgNoLink ==
    Config(<<RequestStep, LinkStep(<<Rule("title", TextExpr, TRUE)>>),
             DataStep(<<TitleRule>>, "")>>)

CfgNoRules == Config(<<RequestStep, LinkStep(<<>>), DataStep(<<TitleRule>>, "")>>)

RuleConfigs == {CfgEmptyExpr, CfgEmptyLink, CfgNoLink, CfgNoRules}

\* a page whose first sibling value is white space
PairedWebs == HealthyWebs \cup {WebOf("listGap", <<>>, <<>>)}

RuleScenarios ==
    {[cfg |-> c, web |-> w, retries |-> DefaultRetries,
      left |-> [start |-> <<>>, success |-> <<>>]] :
        c \in RuleConfigs, w \in HealthyWebs}
    \cup {[cfg |-> CfgPaired(n), web |-> w, retries |-> DefaultRetries,
           left |-> [start |-> <<>>, success |-> <<>>]] :
        n \in {0, 2}, w \in PairedWebs}

\* both engines on the configurations with incomplete rules
InitRules == InitOf(RuleScenarios, {"p1"})

SpecRules == InitRules /\ [][NextEngines]_vars

\* step lists with a Request step behind the first step: between a link
\* step and the data step, twice at the start, and as the last step behind
\* a data step whose hook asks for one more page
CfgReqMid ==
    Config(<<RequestStep, LinkStep(<<LinkRule(2)>>), RequestStep,
             DataStep(<<TitleRule>>, "")>>)

CfgReqTwice ==
    Config(<<RequestStep, RequestStep, LinkStep(<<LinkRule(2)>>),
             DataStep(<<TitleRule>>, "")>>)

CfgReqLast ==
    Config(<<RequestStep, DataStep(<<TitleRule>>, "hook_abs"), RequestStep>>)

\* a fetch record of the seed page whose step index is behind every step
\* list of the model
Beyond ==
    Dumps(FetchRecord([build_initial_request(CfgE2E).payload
                           EXCEPT !.meta.workflow_index = 7],
                      Response(200, "list4"), None))

StepScenarios ==
    {[cfg |-> c, web |-> w, retries |-> DefaultRetries,
      left |-> [start |-> <<>>, success |-> <<>>]] :
        c \in {CfgReqMid, CfgReqTwice, CfgReqLast, CfgLastHook}, w \in HealthyWebs}
    \cup {[cfg |-> CfgE2E, web |-> WebOf("list4", <<>>, <<>>), retries |-> DefaultRetries,
           left |-> [start |-> <<>>, success |-> <<Beyond>>]]}

\* both engines on the step lists with further Request steps
InitSteps == InitOf(StepScenarios, {"p1"})

SpecSteps == InitSteps /\ [][NextEngines]_vars

-----------------------------------------------------------------------------
(* crawler/spiders/fetch_spider.py: FetchSpider, the fetch stage run by     *)
(* Scrapy on the same two lists                                             *)

\* FetchSpider.make_request_from_data: json.loads, payload["url"] and
\* scrapy.Request raise for a message that is no JSON object, has no url,
\* or whose url has no scheme
make_request_from_data(data) ==
    IF data.kind # "json" THEN [raised |-> TRUE, request |-> EmptyDict]
    ELSE LET payload == Loads(data)
         IN  IF "url" \notin DOMAIN payload \/ RequestRaises(payload.url)
             THEN [raised |-> TRUE, request |-> EmptyDict]
             ELSE [raised |-> FALSE,
                   request |->
                     [url |-> payload.url,
                      method |-> Get(payload, "method", "GET"),
                      headers |-> Get(payload, "headers", None),
                      meta |-> Get(payload, "meta", EmptyDict),
                      dont_filter |-> Get(payload, "dont_filter", FALSE)]]

\* the keys Scrapy's downloader puts into request.meta, which is the dict
\* response.meta gives back
DownloadMeta ==
    [download_timeout |-> <<"180">>, download_slot |-> <<"h">>,
     download_latency |-> <<"0">>]

\* the download of Scrapy with up to passes passes: a pass that times out,
\* fails to connect or answers 500 is tried again while passes are left;
\* the response of the last pass, if any, and the passes made
RECURSIVE Download(_, _, _)
Download(url, attempt, passes) ==
    LET o == Outcome(url, attempt)
        again == \/ o.kind \in {"timeout", "reqexc"}
                 \/ o.kind = "response" /\ o.response.status = 500
    IN  IF again /\ attempt + 1 < passes THEN Download(url, attempt + 1, passes)
        ELSE [response |-> o.response, attempts |-> attempt + 1]

\* FetchSpider.parse: the record of a response; its meta is response.meta
\* (the encoding fields are those of the EncodingHandler, modelled apart)
parse(response) ==
    [url |-> response.url,
     status |-> response.status,
     headers |-> response.headers,
     body |-> response.body,
     meta |-> response.meta]

\* Scrapy takes a message from the start list, builds the request, downloads
\* it and calls parse for an answer with status 200; the request has no
\* errback, so every other end of the download is logged by Scrapy and
\* gives no record
FetchSpiderCrawl ==
    /\ startQ # <<>>
    /\ Cardinality(fetchLog) < MaxFetch
    /\ startQ' = Tail(startQ)
    /\ LET data == Head(startQ)
           made == make_request_from_data(data)
       IN  IF made.raised
           THEN /\ FetchLogged(data, "raised", 0, <<>>)
                /\ UNCHANGED successQ
           ELSE \E passes \in 1..MaxRetries :
                  LET d == Download(made.request.url, 0, passes)
                      response == [url |-> made.request.url,
                                   status |-> d.response.status,
                                   headers |-> d.response.headers,
                                   body |-> d.response.body,
                                   meta |-> made.request.meta @@ DownloadMeta]
                  IN  IF d.response.got /\ d.response.status = 200
                      THEN /\ successQ' = Append(successQ, Dumps(parse(response)))
                           /\ FetchLogged(data, "pushed", d.attempts, <<parse(response)>>)
                      ELSE /\ FetchLogged(data, "dropped", d.attempts, <<>>)
                           /\ UNCHANGED successQ
    /\ UNCHANGED <<cfg, web, max_retries, hasDb, dataQ, errorQ, seeded, fw, pw,
                   procLog, mysql>>
    /\ UNCHANGED <<storeVars, spiderVars>>

\* the split pipeline with FetchSpider as its fetch stage
NextFetchSpider ==
    \/ Produce
    \/ FetchSpiderCrawl
    \/ \E w \in ProcWorkers : SuccessPop(w)
    \/ \E w \in ProcWorkers : SuccessProcess(w)

SpecFetchSpider == Init /\ [][NextFetchSpider]_vars

-----------------------------------------------------------------------------
(* crawler/utils/encoding_handler.py: EncodingHandler, which ConfigSpider   *)
(* calls on the body of every response before the step machine sees it.   *)
(* A body is a sequence of segments: plain ASCII text, a byte that is not  *)
(* UTF-8, 2048 bytes of ASCII, or a meta tag that declares a charset.      *)

Declared ==
    [meta_utf8 |-> "UTF8", meta_gbk |-> "gbk", meta_idna |-> "idna",
     meta_unknown |-> "x-unknown"]

Segments == {"text", "xff", "pad2048"} \cup DOMAIN Declared

RECURSIVE SeqsUpTo(_, _)
SeqsUpTo(S, n) ==
    IF n = 0 THEN {<<>>}
    ELSE SeqsUpTo(S, n - 1)
         \cup {Append(q, x) : q \in {r \in SeqsUpTo(S, n - 1) : Len(r) = n - 1}, x \in S}

Bodies == SeqsUpTo(Segments, MaxBody)

\* the codecs of Python: a text encoding that decodes with errors="replace",
\* a text encoding whose decoder takes errors="strict" only (idna), or no
\* text encoding of that name (LookupError)
PyCodec(encoding) ==
    CASE encoding \in {"utf-8", "gbk", "ascii", "windows-1252"} -> "replace"
      [] encoding = "idna" -> "strict"
      [] OTHER -> "lookup"

\* EncodingHandler.ENCODING_ALIASES, after lower()
Alias(name) ==
    CASE name = "utf8" -> "utf-8"
      [] name = "gbk" -> "gbk"
      [] OTHER -> ""

Lower(name) == IF name = "UTF8" THEN "utf8" ELSE name

\* a normalisation that lets every name through (sensitivity of C34)
_normalize_encoding_lax(encoding) == Lower(encoding)

\* EncodingHandler._normalize_encoding; "" stands for None
_normalize_encoding(encoding) ==
    IF encoding = "" THEN ""
    ELSE IF Alias(Lower(encoding)) # "" THEN Alias(Lower(encoding))
    ELSE IF PyCodec(Lower(encoding)) = "lookup" THEN "" ELSE Lower(encoding)

\* content[:2048]: the segments that begin in the first 2048 bytes
RECURSIVE Head2048(_)
Head2048(content) ==
    IF content = <<>> THEN <<>>
    ELSE IF Head(content) = "pad2048" THEN <<"pad2048">>
    ELSE <<Head(content)>> \o Head2048(Tail(content))

\* EncodingHandler._extract_encoding_from_meta: the first declaration in
\* the head decides, also when its name is not an encoding
_extract_encoding_from_meta(content) ==
    LET head == Head2048(content)
        found == {i \in 1..Len(head) : head[i] \in DOMAIN Declared}
        first == CHOOSE i \in found : \A j \in found : i <= j
    IN  IF found = {} THEN "" ELSE _normalize_encoding(Declared[head[first]])

\* EncodingHandler._extract_encoding_from_headers: the charset parameter of
\* the Content-Type header, whatever the case of the header name
_extract_encoding_from_headers(headers) ==
    LET keys == {k \in DOMAIN headers : k \in {"Content-Type", "content-type"}}
        content_type == headers[CHOOSE k \in keys : TRUE]
    IN  IF keys = {} THEN ""
        ELSE IF "charset" \in DOMAIN content_type
             THEN _normalize_encoding(content_type.charset)
             ELSE ""

\* what chardet.detect may answer for a body: no encoding, or one of its
\* encodings with a confidence (in hundredths); EUC-TW is an answer of
\* chardet that Python has no codec for
Detections ==
    {[encoding |-> "", confidence |-> 0]}
    \cup {[encoding |-> e, confidence |-> c] :
            e \in {"ascii", "utf-8", "windows-1252", "EUC-TW"}, c \in {50, 99}}

\* detect_encoding was not called
NotDetected == [encoding |-> "", confidence |-> 0]

\* EncodingHandler.detect_encoding
detect_encoding(content, headers, detected) ==
    IF TruthyDict(headers) /\ _extract_encoding_from_headers(headers) # ""
    THEN [encoding |-> _extract_encoding_from_headers(headers), confidence |-> 100]
    ELSE IF _extract_encoding_from_meta(content) # ""
    THEN [encoding |-> _extract_encoding_from_meta(content), confidence |-> 95]
    ELSE IF content # <<>> /\ detected.encoding # ""
    THEN detected
    ELSE [encoding |-> "utf-8", confidence |-> 0]

\* bytes.decode(encoding, errors="replace"): the text, segment by segment
Decoded(content, encoding) ==
    [i \in 1..Len(content) |->
        IF content[i] # "xff" THEN <<"str", content[i]>>
        ELSE IF encoding = "windows-1252" THEN <<"str", "y-diaeresis">>
        ELSE <<"str", "U+FFFD">>]

\* EncodingHandler.decode_content: LookupError and UnicodeDecodeError are
\* caught and the common encodings are tried, utf-8 first; any other
\* exception of the decoder leaves the function
decode_content(content, headers, detected) ==
    LET encoding == detect_encoding(content, headers, detected).encoding
    IN  IF content = <<>> THEN [raised |-> "", text |-> <<>>]
        ELSE CASE PyCodec(encoding) = "replace" ->
                    [raised |-> "", text |-> Decoded(content, encoding)]
               [] PyCodec(encoding) = "strict" ->
                    [raised |-> "UnicodeError", text |-> <<>>]
               [] OTHER ->
                    [raised |-> "", text |-> Decoded(content, "utf-8")]

\* EncodingHandler.get_encoding_info
get_encoding_info(content, headers, detected) ==
    LET default == [encoding |-> "utf-8", confidence |-> 0, source |-> "default",
                    methods |-> <<>>]
        fromHeader == IF TruthyDict(headers)
                      THEN _extract_encoding_from_headers(headers) ELSE ""
        fromMeta == _extract_encoding_from_meta(content)
    IN  IF fromHeader # ""
        THEN [encoding |-> fromHeader, confidence |-> 100,
              source |-> "Content-Type header", methods |-> <<"header">>]
        ELSE IF fromMeta # ""
        THEN [encoding |-> fromMeta, confidence |-> 95,
              source |-> "HTML meta tag", methods |-> <<"meta">>]
        ELSE IF content # <<>> /\ detected.encoding # ""
        THEN [encoding |-> detected.encoding, confidence |-> detected.confidence,
              source |-> "chardet detection", methods |-> <<"chardet">>]
        ELSE default

HeaderSets ==
    {EmptyDict,
     ("Content-Type" :> [type |-> "text/html"]),
     ("content-type" :> [type |-> "text/html", charset |-> "gbk"]),
     ("Content-Type" :> [type |-> "text/html", charset |-> "x-unknown"])}

\* ConfigSpider._handle_response_encoding, automatic mode:
\* decoded_text = EncodingHandler.decode_content(body, headers_dict)
EhDecode ==
    /\ \/ eh.pc = "start" /\ eh.override = ""
       \/ eh.pc = "auto"
    /\ LET r == decode_content(eh.content, eh.headers, eh.detected)
       IN  eh' = [eh EXCEPT !.pc = IF r.raised = "" THEN "decoded" ELSE "raised",
                            !.raised = r.raised,
                            !.text = r.text,
                            !.used = IF eh.content = <<>> THEN NotDetected
                                     ELSE detect_encoding(eh.content, eh.headers,
                                                          eh.detected)]
    /\ UNCHANGED <<spStarted, spQ, spLog>>
    /\ UNCHANGED <<pipeVars, mysql, storeVars>>

\* encoding_info = EncodingHandler.get_encoding_info(body, headers_dict)
EhInfo ==
    /\ eh.pc = "decoded"
    /\ eh' = [eh EXCEPT !.pc = "done",
                        !.info = get_encoding_info(eh.content, eh.headers, eh.detected)]
    /\ UNCHANGED <<spStarted, spQ, spLog>>
    /\ UNCHANGED <<pipeVars, mysql, storeVars>>

\* ConfigSpider._handle_response_encoding, manual mode: the step names an
\* encoding (encodingMode "manual"); body.decode(custom_encoding,
\* errors="replace") gives the text, LookupError sends the body to the
\* automatic mode, and any other exception of the decoder leaves the method.
\* The empty body decodes under every name.
EhManual ==
    /\ eh.pc = "start"
    /\ eh.override # ""
    /\ eh' = IF eh.content = <<>> \/ PyCodec(eh.override) = "replace"
             THEN [eh EXCEPT !.pc = "done",
                             !.text = Decoded(eh.content, eh.override),
                             !.info = [encoding |-> eh.override, confidence |-> 100,
                                       source |-> "manual",
                                       methods |-> <<"manual_config">>]]
             ELSE IF PyCodec(eh.override) = "lookup"
             THEN [eh EXCEPT !.pc = "auto"]
             ELSE [eh EXCEPT !.pc = "raised", !.raised = "UnicodeError"]
    /\ UNCHANGED <<spStarted, spQ, spLog>>
    /\ UNCHANGED <<pipeVars, mysql, storeVars>>

\* the encodings a step may name: text encodings, a name Python does not
\* know, and idna
Overrides == {"gbk", "windows-1252", "x-unknown", "idna"}

\* the handler is given a body, the headers of the response, what chardet
\* answers for the body, and the encoding the step names ("" for none)
InitEncodingOf(overrides) ==
    /\ \E content \in Bodies, headers \in HeaderSets, detected \in Detections,
          override \in overrides :
          eh = [pc |-> "start", content |-> content, headers |-> headers,
                detected |-> detected, override |-> override, raised |-> "",
                text |-> <<>>, used |-> NotDetected, info |-> EmptyDict]
    /\ cfg = CfgE2E
    /\ web = WebOf("list4", <<>>, <<>>)
    /\ max_retries = DefaultRetries
    /\ hasDb = FALSE
    /\ startQ = <<>>
    /\ successQ = <<>>
    /\ dataQ = <<>>
    /\ errorQ = <<>>
    /\ seeded = FALSE
    /\ fw = FwIdle
    /\ pw = <<>>
    /\ fetchLog = {}
    /\ procLog = {}
    /\ mysql = <<>>
    /\ mongo = <<>>
    /\ sw = <<>>
    /\ saveLog = {}
    /\ routeLog = {}
    /\ clock = 0
    /\ spStarted = FALSE
    /\ spQ = <<>>
    /\ spLog = {}

\* automatic mode
InitEncoding == InitEncodingOf({""})

NextEncoding ==
    \/ EhDecode
    \/ EhInfo

SpecEncoding == InitEncoding /\ [][NextEncoding]_vars

\* manual mode
InitOverride == InitEncodingOf(Overrides)

NextOverride ==
    \/ EhManual
    \/ EhDecode
    \/ EhInfo

SpecOverride == InitOverride /\ [][NextOverride]_vars

-----------------------------------------------------------------------------
(* The stores under their clients: DatabaseManager.save_article,           *)
(* MongoDBManager.save_article and MySQLStorePipeline.process_item, one    *)
(* statement of the store at a time                                        *)

Clients == DOMAIN sw

\* the links of the articles that are saved; the empty link has no hash
Links == {<<>>, <<"http://h", "/a">>, <<"http://h", "/b">>}

\* no identifier: MongoDBManager.save_article returns None
NoId == 0

SwIdle == [pc |-> "idle", op |-> "", backend |-> "", link |-> <<>>, t0 |-> 0,
           hasMongo |-> FALSE, hasMysql |-> FALSE, tried |-> <<>>]

Rows(backend) == IF backend = "mysql" THEN mysql ELSE mongo

\* how save_article ends when a statement of the store fails: the MySQL
\* manager lets the exception out (the transaction rolls back), the MongoDB
\* manager catches it and returns None
Failed(backend) ==
    [raised |-> backend = "mysql", id |-> NoId, wrote |-> FALSE, fault |-> TRUE]

Returned(id, wrote) == [raised |-> FALSE, id |-> id, wrote |-> wrote, fault |-> FALSE]

\* a pipeline that goes on to MySQL whatever MongoDB answered (sensitivity
\* of C8)
process_item_both(hasMongo, hasMysql, tried) ==
    IF tried = <<>>
    THEN IF hasMongo THEN "mongo" ELSE IF hasMysql THEN "mysql" ELSE "return"
    ELSE IF tried[Len(tried)].backend = "mongo" /\ hasMysql THEN "mysql"
    ELSE "return"

\* MySQLStorePipeline.process_item: what it does next, given the saves tried
\* so far: call the save of "mongo" or of "mysql", or "return" the item; both
\* saves are inside try/except, so no failure of a save leaves the call
process_item(hasMongo, hasMysql, tried) ==
    IF tried = <<>>
    THEN IF hasMongo THEN "mongo" ELSE IF hasMysql THEN "mysql" ELSE "return"
    ELSE LET last == tried[Len(tried)]
         IN  IF last.backend = "mongo"
             THEN IF ~last.res.raised /\ last.res.id # NoId THEN "return"
                  ELSE IF hasMysql THEN "mysql" ELSE "return"
             ELSE "return"

\* a save_article call ends with result res: a direct call is over; inside
\* process_item the pipeline goes on as process_item says
Finish(c, res) ==
    LET tried == Append(sw[c].tried, [backend |-> sw[c].backend, res |-> res])
        next == process_item(sw[c].hasMongo, sw[c].hasMysql, tried)
    IN  IF sw[c].op = "save"
        THEN /\ saveLog' = saveLog \cup
                    {[c |-> c, backend |-> sw[c].backend, link |-> sw[c].link,
                      t0 |-> sw[c].t0, fin |-> clock, res |-> res]}
             /\ sw' = [sw EXCEPT ![c] = SwIdle]
             /\ UNCHANGED routeLog
        ELSE IF next \in {"return", "raise"}
        THEN /\ routeLog' = routeLog \cup
                    {[c |-> c, link |-> sw[c].link, hasMongo |-> sw[c].hasMongo,
                      hasMysql |-> sw[c].hasMysql, tried |-> tried,
                      returned |-> next = "return"]}
             /\ sw' = [sw EXCEPT ![c] = SwIdle]
             /\ UNCHANGED saveLog
        ELSE /\ sw' = [sw EXCEPT ![c].pc = "check", ![c].backend = next,
                                 ![c].tried = tried]
             /\ UNCHANGED <<saveLog, routeLog>>

\* a client calls save_article(link=...) of one manager
SaveBegin(c) ==
    /\ sw[c].pc = "idle"
    /\ clock < MaxCalls
    /\ clock' = clock + 1
    /\ \E b \in {"mysql", "mongo"}, l \in Links :
         sw' = [sw EXCEPT ![c] = [SwIdle EXCEPT !.pc = "check", !.op = "save",
                                                !.backend = b, !.link = l,
                                                !.t0 = clock + 1]]
    /\ UNCHANGED <<mysql, mongo, saveLog, routeLog>>
    /\ UNCHANGED <<pipeVars, spiderVars>>

\* a pipeline with or without each manager gets an item: process_item
RouteBegin(c) ==
    /\ sw[c].pc = "idle"
    /\ clock < MaxCalls
    /\ clock' = clock + 1
    /\ \E l \in Links, hm \in BOOLEAN, hs \in BOOLEAN :
         LET first == process_item(hm, hs, <<>>)
         IN  IF first \in {"return", "raise"}
             THEN /\ routeLog' = routeLog \cup
                        {[c |-> c, link |-> l, hasMongo |-> hm, hasMysql |-> hs,
                          tried |-> <<>>, returned |-> first = "return"]}
                  /\ UNCHANGED sw
             ELSE /\ sw' = [sw EXCEPT ![c] =
                              [SwIdle EXCEPT !.pc = "check", !.op = "route",
                                             !.backend = first, !.link = l,
                                             !.t0 = clock + 1,
                                             !.hasMongo = hm, !.hasMysql = hs]]
                  /\ UNCHANGED routeLog
    /\ UNCHANGED <<mysql, mongo, saveLog>>
    /\ UNCHANGED <<pipeVars, spiderVars>>

\* save_article: the existence check (SELECT ... LIMIT 1 / find_one), made
\* for a non-empty link hash; a row found ends the call with its id
BackendCheck(c) ==
    /\ sw[c].pc = "check"
    /\ LET h == get_link_hash(sw[c].link)
           ids == Existing(Rows(sw[c].backend), h)
       IN  \E fault \in (IF h # <<>> THEN BOOLEAN ELSE {FALSE}) :
             IF fault THEN Finish(c, Failed(sw[c].backend))
             ELSE IF ids # {} THEN \E id \in ids : Finish(c, Returned(id, FALSE))
             ELSE /\ sw' = [sw EXCEPT ![c].pc = "insert"]
                  /\ UNCHANGED <<saveLog, routeLog>>
    /\ UNCHANGED <<mysql, mongo, clock>>
    /\ UNCHANGED <<pipeVars, spiderVars>>

\* save_article: the insert (INSERT INTO articles / insert_one), which
\* returns the new id
BackendInsert(c) ==
    /\ sw[c].pc = "insert"
    /\ \E fault \in BOOLEAN :
         IF fault
         THEN /\ Finish(c, Failed(sw[c].backend))
              /\ UNCHANGED <<mysql, mongo>>
         ELSE /\ Finish(c, Returned(Len(Rows(sw[c].backend)) + 1, TRUE))
              /\ IF sw[c].backend = "mysql"
                 THEN /\ mysql' = InsertRow(mysql, sw[c].link, <<>>)
                      /\ UNCHANGED mongo
                 ELSE /\ mongo' = InsertRow(mongo, sw[c].link, <<>>)
                      /\ UNCHANGED mysql
    /\ UNCHANGED clock
    /\ UNCHANGED <<pipeVars, spiderVars>>

InitStore(clients) ==
    /\ cfg = CfgE2E
    /\ web = WebOf("list4", <<>>, <<>>)
    /\ max_retries = DefaultRetries
    /\ hasDb = FALSE
    /\ startQ = <<>>
    /\ successQ = <<>>
    /\ dataQ = <<>>
    /\ errorQ = <<>>
    /\ seeded = FALSE
    /\ fw = FwIdle
    /\ pw = <<>>
    /\ fetchLog = {}
    /\ procLog = {}
    /\ mysql = <<>>
    /\ mongo = <<>>
    /\ sw = [c \in clients |-> SwIdle]
    /\ saveLog = {}
    /\ routeLog = {}
    /\ clock = 0
    /\ spStarted = FALSE
    /\ spQ = <<>>
    /\ spLog = {}
    /\ eh = EhOff

\* one client that calls save_article, one call after the other
InitSave == InitStore({"c1"})

NextSave ==
    \/ \E c \in Clients : SaveBegin(c)
    \/ \E c \in Clients : BackendCheck(c)
    \/ \E c \in Clients : BackendInsert(c)

SpecSave == InitSave /\ [][NextSave]_vars

\* two clients that call save_article at the same time
InitSaveConc == InitStore({"c1", "c2"})

SpecSaveConc == InitSaveConc /\ [][NextSave]_vars

\* one pipeline that gets items, one after the other
NextRoute ==
    \/ \E c \in Clients : RouteBegin(c)
    \/ \E c \in Clients : BackendCheck(c)
    \/ \E c \in Clients : BackendInsert(c)

SpecRoute == InitSave /\ [][NextRoute]_vars

-----------------------------------------------------------------------------
(* Vocabulary of the properties *)

\* nothing is queued and no worker holds a message
Quiescent ==
    /\ seeded
    /\ startQ = <<>>
    /\ successQ = <<>>
    /\ fw.pc = "idle"
    /\ \A w \in ProcWorkers : pw[w].pc = "idle"

HealthyList4 == WebOf("list4", <<>>, <<>>)

\* the processed messages that were fetch records
Processed == {e \in procLog : e.in.kind = "json"}

\* the step at which _advance handles a record of this index (0-based);
\* Len(steps) when it runs off the list
RECURSIVE Landing(_)
Landing(index) ==
    IF index >= Len(cfg.workflowSteps) THEN Len(cfg.workflowSteps)
    ELSE IF cfg.workflowSteps[index + 1].type \in {"link_extraction", "data_extraction"}
         THEN index
         ELSE Landing(index + 1)

\* the step that handles the record of log entry e, and its kind
LandingOf(e) == Landing(Get(Get(Loads(e.in), "meta", EmptyDict), "workflow_index", 0))

AtStep(e, type) ==
    /\ LandingOf(e) < Len(cfg.workflowSteps)
    /\ cfg.workflowSteps[LandingOf(e) + 1].type = type

\* the records an entry emitted, to the database or to the data list
Emitted(e) == e.out.db \o e.out.data

SeedContext == [task_id |-> <<"t1">>, task_name |-> <<"demo">>]

\* the follow-up request the end-to-end scenario expects for a href
E2ERequest(href) ==
    [url |-> <<"http://h", href>>, method |-> "GET", headers |-> AcceptEn,
     meta |-> [workflow_index |-> 2, context |-> SeedContext],
     dont_filter |-> FALSE]

-----------------------------------------------------------------------------
(* C1 *)

\* C1: in the end-to-end scenario (steps Request, LinkExtraction with
\* maxLinks 2, DataExtraction of title; a seed page with four anchors; every
\* fetch answered), once all queues are empty exactly two follow-up requests
\* were enqueued, for the first two hrefs made absolute and with step index
\* 2, and exactly two records were emitted, one per fetched target, each
\* with title "X"; nothing else was enqueued or emitted.
C1_EndToEnd ==
    (cfg = CfgE2E /\ web = HealthyList4 /\ Quiescent) =>
        /\ \E e \in Processed :
             /\ e.out.start = <<E2ERequest("/a"), E2ERequest("/b")>>
             /\ Emitted(e) = <<>>
             /\ \A o \in Processed \ {e} : o.out.start = <<>>
        /\ \E ea, eb \in Processed :
             /\ ea # eb
             /\ \A o \in Processed : Emitted(o) # <<>> <=> o \in {ea, eb}
             /\ Len(Emitted(ea)) = 1 /\ Len(Emitted(eb)) = 1
             /\ Emitted(ea)[1].source_url = <<"http://h", "/a">>
             /\ Emitted(eb)[1].source_url = <<"http://h", "/b">>
             /\ Emitted(ea)[1].data = [title |-> <<"X">>]
             /\ Emitted(eb)[1].data = [title |-> <<"X">>]
        /\ \A e \in procLog : e.k = 0
        /\ Cardinality(procLog) = 3

\* C1 witness: the end-to-end run has come to rest with its three records
\* (the seed page and the two targets) processed
C1_Witness ==
    /\ cfg = CfgE2E /\ web = HealthyList4 /\ Quiescent
    /\ Cardinality(Processed) = 3
    /\ \E e \in Processed : Len(e.out.start) = 2

-----------------------------------------------------------------------------
(* C2: truncation to maxLinks, in both step machines *)

LinkRulesAt(index) == cfg.workflowSteps[index + 1].config.linkExtractionRules

HasRuleAt(index, f) ==
    \E i \in 1..Len(LinkRulesAt(index)) : LinkRulesAt(index)[i].fieldName = f

\* the raw matches in a body of the rule named f of the link step at index
RawAt(index, body, f) ==
    LET r == CHOOSE r \in {LinkRulesAt(index)[i] : i \in 1..Len(LinkRulesAt(index))} :
                r.fieldName = f
    IN  GetAll(body, r.expression)

MaxLinksAt(index) == FirstLinkRule(LinkRulesAt(index)).maxLinks

MaxLinksOf(e) == MaxLinksAt(LandingOf(e))

\* the context a follow-up request carries: the split mode puts it under
\* meta.context, the spider merges it into meta
ContextOf(request) ==
    IF "context" \in DOMAIN request.meta THEN request.meta.context ELSE request.meta

\* exactly n requests, from the first n links of the body, each paired with
\* the sibling value of its own position
FirstNPaired(requests, base, index, body, n) ==
    /\ Len(requests) = n
    /\ \A i \in 1..n :
         /\ requests[i].url = urljoin(base, Strip(RawAt(index, body, "link")[i]))
         /\ requests[i].meta.workflow_index = index + 1
         /\ (HasRuleAt(index, "title") /\ i <= Len(RawAt(index, body, "title"))) =>
               Get(ContextOf(requests[i]), "title", <<>>)
                   = Strip(RawAt(index, body, "title")[i])

\* the link pages the split mode has processed, and those the spider has
SplitLinkPages == {e \in Processed : AtStep(e, "link_extraction")}

SpiderIndex(e) == Landing(Get(e.in.meta, "workflow_index", 0))

SpiderLinkPages ==
    {e \in spLog : /\ e.called
                   /\ SpiderIndex(e) < Len(cfg.workflowSteps)
                   /\ cfg.workflowSteps[SpiderIndex(e) + 1].type = "link_extraction"}

MoreThanMax(index, body) == Len(RawAt(index, body, "link")) > MaxLinksAt(index)

\* none of the first n raw links of the body is empty or white space
FirstNonBlank(index, body, n) ==
    \A i \in 1..n : Strip(RawAt(index, body, "link")[i]) # <<>>

\* C2 (as amended): for every LinkExtraction step whose maxLinks is n >= 1
\* and every page whose raw link sequence has length m > n, processing the
\* page emits exactly n follow-up requests, built from the first n links,
\* and the request at position i carries the sibling value at position i;
\* in the spider this holds when none of the first n links is blank.
C2_TruncateThenPair ==
    /\ \A e \in SplitLinkPages :
          (MaxLinksOf(e) >= 1 /\ MoreThanMax(LandingOf(e), Loads(e.in).body))
          => FirstNPaired(e.out.start, Loads(e.in).url, LandingOf(e),
                          Loads(e.in).body, MaxLinksOf(e))
    /\ \A e \in SpiderLinkPages :
          (/\ MaxLinksAt(SpiderIndex(e)) >= 1
           /\ MoreThanMax(SpiderIndex(e), e.body)
           /\ FirstNonBlank(SpiderIndex(e), e.body, MaxLinksAt(SpiderIndex(e))))
          => FirstNPaired(e.out.requests, e.in.url, SpiderIndex(e), e.body,
                          MaxLinksAt(SpiderIndex(e)))

\* C2 as stated: for every n, and for every page with more than n links
C2_Original ==
    /\ \A e \in SplitLinkPages :
          MoreThanMax(LandingOf(e), Loads(e.in).body)
          => FirstNPaired(e.out.start, Loads(e.in).url, LandingOf(e),
                          Loads(e.in).body, MaxLinksOf(e))
    /\ \A e \in SpiderLinkPages :
          MoreThanMax(SpiderIndex(e), e.body)
          => FirstNPaired(e.out.requests, e.in.url, SpiderIndex(e), e.body,
                          MaxLinksAt(SpiderIndex(e)))

\* C2 witness: both step machines have processed a page with more links
\* than maxLinks >= 2 under a configuration with a sibling rule, and have
\* emitted maxLinks requests
C2_Witness ==
    /\ \E e \in SplitLinkPages :
          /\ MaxLinksOf(e) >= 2
          /\ MoreThanMax(LandingOf(e), Loads(e.in).body)
          /\ HasRuleAt(LandingOf(e), "title")
          /\ Len(e.out.start) = MaxLinksOf(e)
    /\ \E e \in SpiderLinkPages :
          /\ MaxLinksAt(SpiderIndex(e)) >= 2
          /\ MoreThanMax(SpiderIndex(e), e.body)
          /\ HasRuleAt(SpiderIndex(e), "title")
          /\ Len(e.out.requests) = MaxLinksAt(SpiderIndex(e))

-----------------------------------------------------------------------------
(* C3, C4: deduplication of save_article by link hash *)

NonEmptyLinks == {l \in Links : l # <<>>}

RowsWithLink(backend, link) ==
    {i \in 1..Len(Rows(backend)) : Rows(backend)[i].link_hash = get_link_hash(link)}

\* call a was over before call b began, and the store answered both
InSequence(a, b) ==
    /\ a.backend = b.backend
    /\ a.link = b.link
    /\ a.link # <<>>
    /\ a.fin < b.t0
    /\ ~a.res.fault
    /\ ~b.res.fault

\* C3: of two save_article calls made one after the other on the same
\* backend (MySQL or MongoDB) with the same non-empty link, both answered by
\* the store, the second returns the identifier the first returned, raises
\* no error, and the store holds exactly one row or document with that
\* link hash.
C3_SequentialDedup ==
    \A a \in saveLog, b \in saveLog :
        InSequence(a, b) =>
            /\ b.res.id = a.res.id
            /\ b.res.id # NoId
            /\ ~b.res.raised
            /\ ~b.res.wrote
            /\ Cardinality(RowsWithLink(b.backend, b.link)) = 1

\* a first call has inserted, a second call with the same link has returned,
\* and a call with another link came between them
C3_Witness ==
    \E a \in saveLog, b \in saveLog, x \in saveLog :
        /\ InSequence(a, b)
        /\ a.res.wrote
        /\ x.backend = a.backend
        /\ x.link # a.link
        /\ a.fin < x.t0
        /\ x.fin < b.t0

\* C4: in every reachable state, under any interleaving of the save_article
\* calls of several workers on one store, the store holds at most one
\* article per distinct non-empty link.
C4_AtMostOnePerLink ==
    \A backend \in {"mysql", "mongo"}, link \in NonEmptyLinks :
        Cardinality(RowsWithLink(backend, link)) <= 1

-----------------------------------------------------------------------------
(* C8: the priority of the backends in process_item *)

Backends(e) == {e.tried[i].backend : i \in 1..Len(e.tried)}

Wrote(e) == {e.tried[i].backend : i \in {j \in 1..Len(e.tried) : e.tried[j].res.wrote}}

SaveFailed(t) == t.res.raised \/ t.res.id = NoId

\* C8: every process_item call offers the record to MongoDB first when it is
\* there; it tries MySQL only when MongoDB is absent or its save failed, and
\* only when MySQL is there; one call never writes to both backends; and the
\* call returns normally, also when no backend is there or every save failed,
\* and then nothing was written.
C8_RouterPriority ==
    \A e \in routeLog :
        /\ e.hasMongo => (Len(e.tried) >= 1 /\ e.tried[1].backend = "mongo")
        /\ "mongo" \in Backends(e) => e.hasMongo
        /\ "mysql" \in Backends(e) =>
              /\ e.hasMysql
              /\ e.tried[Len(e.tried)].backend = "mysql"
              /\ \/ ~e.hasMongo /\ Len(e.tried) = 1
                 \/ e.hasMongo /\ Len(e.tried) = 2 /\ SaveFailed(e.tried[1])
        /\ (e.hasMongo /\ SaveFailed(e.tried[1]) /\ e.hasMysql) => "mysql" \in Backends(e)
        /\ (~e.hasMongo /\ e.hasMysql) => "mysql" \in Backends(e)
        /\ Cardinality(Wrote(e)) <= 1
        /\ e.returned
        /\ (\A i \in 1..Len(e.tried) : SaveFailed(e.tried[i])) => Wrote(e) = {}

\* the cases of the claim have happened: a call that fell back to MySQL after
\* MongoDB failed and wrote there, a call that wrote to MongoDB with MySQL
\* there, and a call both saves of which failed
C8_Witness ==
    /\ \E e \in routeLog : Len(e.tried) = 2 /\ Wrote(e) = {"mysql"}
    /\ \E e \in routeLog : e.hasMysql /\ Wrote(e) = {"mongo"}
    /\ \E e \in routeLog : Len(e.tried) = 2 /\ SaveFailed(e.tried[2])

-----------------------------------------------------------------------------
(* C5, C6: where a failed message goes *)

\* the entries of a sequence of error-list entries that carry this payload
EntriesFor(entries, data) ==
    SelectSeq(entries, LAMBDA x : "payload" \in DOMAIN x /\ x.payload = data)

\* C5: whenever a message popped from the success list is malformed JSON or
\* its processing raises, the worker pushes exactly one entry with the
\* reason and the raw payload to the error list, and the worker goes on to
\* the next message.
C5_ErrorRouted ==
    /\ \A e \in procLog :
          Failure(e.in) # "" =>
             /\ Len(EntriesFor(e.errs, e.in)) = 1
             /\ EntriesFor(e.errs, e.in)[1].error = Failure(e.in)
             /\ ~e.crashed
    /\ \A w \in ProcWorkers : pw[w].pc # "crashed"

\* C6: whenever the fetch worker pops a start-list message and fails while
\* it handles it, the raw message is on an error list with the reason.
C6_FetchErrorRouted ==
    \A e \in fetchLog :
        e.fate = "raised" => EntriesFor(errorQ, e.in) # <<>>

-----------------------------------------------------------------------------
(* C7: the retry budget of the fetch stage *)

\* every pass of the retry loop for this URL ends in Timeout or another
\* RequestException
AllFail(url) ==
    \A attempt \in 0..(max_retries - 1) :
        Outcome(url, attempt).kind \in {"timeout", "reqexc"}

\* the handled start-list messages that are requests every attempt of which fails
Doomed ==
    {e \in fetchLog : /\ e.in.kind = "json"
                      /\ Truthy(Get(Loads(e.in), "url", None))
                      /\ AllFail(Loads(e.in).url)}

\* the request ended in one record with status 0 and an error text, after
\* at most max_retries attempts
FailureRecorded(e) ==
    /\ e.fate = "pushed"
    /\ e.attempts <= max_retries
    /\ Len(e.out) = 1
    /\ e.out[1].status = 0
    /\ Truthy(e.out[1].error)

-----------------------------------------------------------------------------
(* C9: replay *)

-----------------------------------------------------------------------------
(* C10: the step index of the requests of a hook *)

HasHook(e) ==
    /\ AtStep(e, "data_extraction")
    /\ Get(cfg.workflowSteps[LandingOf(e) + 1].config, "nextRequestCustomCode", "") # ""

\* C10: for every DataExtraction step at index i with a next-request hook,
\* every follow-up request made from a descriptor the hook returned carries
\* step index i + 1, whatever the descriptor holds.
C10_HookIndex ==
    \A e \in Processed :
        HasHook(e) =>
            \A i \in 1..Len(e.out.start) :
                e.out.start[i].meta.workflow_index = LandingOf(e) + 1

-----------------------------------------------------------------------------
(* C11: the url of the requests of a hook *)

\* C11: when the next-request hook returns a descriptor whose url is
\* relative, the follow-up request that is enqueued has that url resolved
\* to an absolute URL against the URL of the current page.
C11_HookUrlResolved ==
    \A e \in Processed :
        HasHook(e) =>
            \A i \in 1..Len(e.out.start) : IsAbsolute(e.out.start[i].url)

-----------------------------------------------------------------------------
(* C12: a hook that raises *)

\* the processed pages whose hook raised
HookFailed == {e \in Processed : HasHook(e) /\ e.out.raised = "hook raised"}

\* the record _handle_data_extraction builds for the page of entry e
RecordOf(e) ==
    LET record == Loads(e.in)
        step == cfg.workflowSteps[LandingOf(e) + 1]
    IN  [task_id |-> Get(cfg.taskInfo, "id", None),
         task_name |-> Get(cfg.taskInfo, "name", None),
         source_url |-> Get(record, "url", None),
         context |-> Get(Get(record, "meta", EmptyDict), "context", EmptyDict),
         data |-> ExtractData(Get(record, "body", ""),
                              Get(step.config, "extractionRules", <<>>))]

\* C12: when the next-request hook raises while a page is processed at a
\* DataExtraction step, no follow-up request is enqueued for the page, the
\* record of the page is emitted exactly once with the fields it has
\* without the failure, and the page is not reported as failed.
C12_HookIsolated ==
    \A e \in HookFailed :
        /\ e.out.start = <<>>
        /\ Emitted(e) = <<RecordOf(e)>>
        /\ e.errs = <<>>
        /\ ~e.crashed

-----------------------------------------------------------------------------
(* C13: one record per page at a DataExtraction step *)

DataPages == {e \in Processed : AtStep(e, "data_extraction")}

\* the save of the record of entry e did not raise
SaveReturned(e) == \A i \in 1..Len(e.errs) : "item" \notin DOMAIN e.errs[i]

-----------------------------------------------------------------------------
(* C14: the shape of the entries of the error list *)

\* the messages that were popped from the success list so far
Popped == {e.in : e \in procLog} \cup {pw[w].data : w \in {x \in ProcWorkers : pw[x].pc = "got"}}

\* C14: every message ever placed on the error list has the shape
\* {error, payload}: an error text and the original popped message as text.
C14_ErrorShape ==
    \A i \in 1..Len(errorQ) :
        /\ DOMAIN errorQ[i] = {"error", "payload"}
        /\ errorQ[i].payload \in Popped

-----------------------------------------------------------------------------
(* C15: the context along link fan-out *)

\* the context a processed fetch record came with
IncomingContext(e) == Get(Get(Loads(e.in), "meta", EmptyDict), "context", EmptyDict)

\* the context a response of the spider came with: its meta but the index
SpiderIncoming(e) ==
    [k \in DOMAIN e.in.meta \ {"workflow_index"} |-> e.in.meta[k]]

\* the names of the sibling fields of the link step at index
SiblingFields(index) ==
    {LinkRulesAt(index)[i].fieldName : i \in 1..Len(LinkRulesAt(index))} \ {"link"}

\* context next keeps every key of context before, changes only sibling
\* fields and adds only sibling fields
OnlyAdds(before, next, index) ==
    /\ DOMAIN before \subseteq DOMAIN next
    /\ DOMAIN next \subseteq DOMAIN before \cup SiblingFields(index) \cup {"workflow_index"}
    /\ \A k \in DOMAIN before \ SiblingFields(index) : next[k] = before[k]

\* C15: for every follow-up request a LinkExtraction step emits, in the
\* split mode and in the spider, every key of the incoming context of the
\* processed page is still in the context of the follow-up; link extraction
\* only adds sibling-field entries.
C15_ContextKept ==
    /\ \A e \in SplitLinkPages : \A i \in 1..Len(e.out.start) :
          OnlyAdds(IncomingContext(e), ContextOf(e.out.start[i]), LandingOf(e))
    /\ \A e \in SpiderLinkPages : \A i \in 1..Len(e.out.requests) :
          OnlyAdds(SpiderIncoming(e), ContextOf(e.out.requests[i]), SpiderIndex(e))

-----------------------------------------------------------------------------
(* C16: the context of the requests of a hook *)

\* every key of context before is in context next with the same value
Carries(before, next) ==
    \A k \in DOMAIN before : k \in DOMAIN next /\ next[k] = before[k]

\* C16: every follow-up request made from a descriptor of a next-request
\* hook at a DataExtraction step carries the context of the processed page,
\* all of its keys and values.
C16_HookContextKept ==
    \A e \in Processed :
        HasHook(e) =>
            \A i \in 1..Len(e.out.start) :
                Carries(IncomingContext(e),
                        Get(e.out.start[i].meta, "context", EmptyDict))

-----------------------------------------------------------------------------
(* C17: one context per follow-up request *)

\* the sibling value that belongs to the link at position i: the raw match
\* of its own position, or the last one when there are fewer
OwnValue(index, body, f, i) ==
    LET raw == RawAt(index, body, f)
    IN  Strip(raw[IF i <= Len(raw) THEN i ELSE Len(raw)])

-----------------------------------------------------------------------------
(* C18: shutdown *)

\* the messages the stopped workers had popped and not finished
LostOnShutdown ==
    (IF fw.pc = "aborted" THEN {fw.data} ELSE {})
    \cup {pw[w].data : w \in {x \in ProcWorkers : pw[x].pc = "aborted"}}

\* C18: when KeyboardInterrupt arrives while a worker handles a popped
\* message, the worker finishes the message (its fetch record, follow-up
\* requests or extracted record are pushed) before it stops polling: no
\* popped message is lost because of shutdown.
C18_FinishBeforeStop == LostOnShutdown = {}

-----------------------------------------------------------------------------
(* C19: several processing workers on one success list *)

\* how many elements of a sequence are m
CountIn(queue, m) == Cardinality({i \in 1..Len(queue) : queue[i] = m})

\* how many times the fetch stage has pushed the message m
PushedCount(m) ==
    Cardinality({e \in fetchLog : e.fate = "pushed" /\ Dumps(e.out[1]) = m})

\* how many workers hold m, and how many times m was processed
HeldCount(m) == Cardinality({w \in ProcWorkers : pw[w].pc = "got" /\ pw[w].data = m})

ProcessedCount(m) == Cardinality({e \in procLog : e.in = m})

FetchRecords ==
    {Dumps(e.out[1]) : e \in {x \in fetchLog : x.fate = "pushed"}}
    \cup {e.in : e \in procLog}
    \cup {pw[w].data : w \in {x \in ProcWorkers : pw[x].pc = "got"}}
    \cup {successQ[i] : i \in 1..Len(successQ)}

\* C19: with several processing workers that pop from the same success
\* list, every fetch record that was pushed is delivered to and processed
\* by exactly one worker: as many times as a message was pushed, it is on
\* the list, in the hands of one worker, or processed once.
C19_ExactlyOnce ==
    \A m \in FetchRecords :
        PushedCount(m) = CountIn(successQ, m) + HeldCount(m) + ProcessedCount(m)

\* C19 witness: both workers have processed fetch records, two of them the
\* same message pushed twice, and everything pushed was processed
C19_Witness ==
    /\ Quiescent
    /\ \E a \in procLog, b \in procLog : a.w # b.w /\ a.in = b.in
    /\ \A m \in FetchRecords : ProcessedCount(m) = PushedCount(m)

-----------------------------------------------------------------------------
(* C20: configuration errors *)

\* a document without one of the two required sections
MissingSection(d) == "taskInfo" \notin DOMAIN d \/ "workflowSteps" \notin DOMAIN d

\* a value that supplies a URL: present and not empty
Supplies(d, k) == k \in DOMAIN d /\ d[k] # <<>> /\ d[k] # None

\* a document with both sections that has no steps, whose first step is not
\* a request step, or that names no seed URL
Unusable(d) ==
    \/ d.workflowSteps = <<>>
    \/ "type" \notin DOMAIN d.workflowSteps[1]
    \/ d.workflowSteps[1].type # "request"
    \/ /\ ~Supplies(d.workflowSteps[1].config, "url")
       /\ ~Supplies(d.taskInfo, "baseUrl")

ConfigError(d) == MissingSection(d) \/ Unusable(d)

\* C20: configuration errors are fatal before any enqueue: for a document
\* without taskInfo or workflowSteps load_config raises, and for a document
\* with no steps, with a first step that is not of type request, or with no
\* URL in the request step and in taskInfo.baseUrl build_initial_request
\* raises; in both cases nothing is ever pushed to the start list, so
\* nothing is fetched.
C20_ConfigErrorFatal ==
    ConfigError(cfg) =>
        /\ MissingSection(cfg) => load_config(cfg).raised
        /\ ~MissingSection(cfg) => build_initial_request(cfg).raised
        /\ startQ = <<>>
        /\ fetchLog = {}

\* C20 witness: the producer has run on a document whose request step and
\* task name no URL, and on nothing else wrong
C20_Witness ==
    /\ seeded
    /\ ~MissingSection(cfg)
    /\ cfg.workflowSteps # <<>>
    /\ cfg.workflowSteps[1].type = "request"
    /\ Unusable(cfg)

-----------------------------------------------------------------------------
(* C21: headers of the seed request *)

\* the first step is a request step in json mode whose headersJson is the
\* text of a map
HasHeaderMap(d) ==
    /\ ~ConfigError(d)
    /\ Get(d.workflowSteps[1].config, "headersMode", "") = "json"
    /\ "headersJson" \in DOMAIN d.workflowSteps[1].config
    /\ d.workflowSteps[1].config.headersJson.ok

HeaderMap(d) == d.workflowSteps[1].config.headersJson.v

\* C21: when the Request step is configured with headersMode json and a
\* headersJson map, the step of the producer pushes exactly one message to
\* the start list, a request whose headers equal that map and whose step
\* index is 0.
C21_SeedHeaders ==
    [][(~seeded /\ seeded' /\ HasHeaderMap(cfg)) =>
          \E m \in {startQ'[i] : i \in 1..Len(startQ')} :
              /\ startQ' = Append(startQ, m)
              /\ m.kind = "json"
              /\ m.v.headers = HeaderMap(cfg)
              /\ m.v.meta.workflow_index = 0]_vars

\* C21 witness: the seed of a document with a map of two headers is on the
\* start list
C21_Witness ==
    /\ seeded
    /\ HasHeaderMap(cfg)
    /\ HeaderMap(cfg) = TwoHeaders
    /\ Len(startQ) = 1
    /\ startQ[1].v.headers = TwoHeaders

-----------------------------------------------------------------------------
(* C22: rules with an empty expression *)

\* the rules of the step at index, under the key of its kind
RulesAt(index, key) == Get(cfg.workflowSteps[index + 1].config, key, <<>>)

\* the rules of a list whose expression is empty
EmptyRules(rules) == {i \in 1..Len(rules) : rules[i].expression = ""}

\* what extraction is to return for a rule with an empty expression
EmptyValue(rule) == IF rule.multiple THEN PyList(<<>>) ELSE <<>>

\* the pages the spider has handled at a DataExtraction step
SpiderDataPages ==
    {e \in spLog : /\ e.called
                   /\ SpiderIndex(e) < Len(cfg.workflowSteps)
                   /\ cfg.workflowSteps[SpiderIndex(e) + 1].type = "data_extraction"}

-----------------------------------------------------------------------------
(* C23: encoding resolution without headers *)

\* the sources get_encoding_info reports for the tag of the page, for the
\* statistical detection and for the default
BodySources == {"HTML meta tag", "chardet detection", "default"}

\* C23: encoding resolution with no headers and no override never raises
\* for any byte buffer: decode_content always returns a string, and the
\* source get_encoding_info reports is one of meta, statistical or default.
C23_NeverRaises ==
    (eh.pc # "off" /\ eh.headers = EmptyDict) =>
        /\ eh.pc # "raised"
        /\ eh.pc \in {"decoded", "done"} =>
              /\ Len(eh.text) = Len(eh.content)
              /\ \A i \in 1..Len(eh.text) : eh.text[i][1] = "str"
        /\ eh.pc = "done" => eh.info.source \in BodySources

-----------------------------------------------------------------------------
(* C24: a hook source without a callable process_request *)

\* the hook source of the step that handles entry e
HookOf(index) == Get(cfg.workflowSteps[index + 1].config, "nextRequestCustomCode", "")

NotCallable == {"hook_nocall", "hook_missing"}

\* C24: a missing or non-callable process_request in the configured hook
\* source yields no follow-up request and no error: in both engines the
\* record of the page is emitted as without a hook, no request is emitted,
\* and nothing is pushed to the error list.
C24_NoCallableHook ==
    /\ \A e \in DataPages :
          HookOf(LandingOf(e)) \in NotCallable =>
              /\ e.out.start = <<>>
              /\ e.out.raised = ""
              /\ Emitted(e) = <<RecordOf(e)>>
              /\ e.errs = <<>>
              /\ ~e.crashed
    /\ \A e \in SpiderDataPages :
          HookOf(SpiderIndex(e)) \in NotCallable =>
              /\ e.out.requests = <<>>
              /\ ~e.out.raised
              /\ Len(e.out.items) = 1
    /\ (\E i \in 1..Len(cfg.workflowSteps) : HookOf(i - 1) \in NotCallable) =>
          errorQ = <<>>

\* C24 witness: both engines have handled a page whose hook source defines
\* no process_request, and the record is on the data list
C24_Witness ==
    /\ cfg = CfgHook("hook_missing")
    /\ \E e \in DataPages : HookOf(LandingOf(e)) = "hook_missing"
    /\ \E e \in SpiderDataPages : HookOf(SpiderIndex(e)) = "hook_missing"
    /\ dataQ # <<>>

-----------------------------------------------------------------------------
(* C25: links that are empty *)

\* the links of a body that survive the truncation of the link step at index
Surviving(index, body) == Truncate(RawAt(index, body, "link"), MaxLinksAt(index))

\* the positions of the surviving links that are not empty after trimming
NonBlank(index, body) ==
    {i \in 1..Len(Surviving(index, body)) : Strip(Surviving(index, body)[i]) # <<>>}

\* C25: in a LinkExtraction step a link value that is empty or white space
\* only after trimming produces no follow-up request: in both engines a
\* page gives as many requests as it has surviving links that are not
\* blank, and nothing is enqueued for the others.
C25_EmptyLinksSkipped ==
    /\ \A e \in SplitLinkPages :
          HasRuleAt(LandingOf(e), "link") =>
              Len(e.out.start) = Cardinality(NonBlank(LandingOf(e), Loads(e.in).body))
    /\ \A e \in SpiderLinkPages :
          HasRuleAt(SpiderIndex(e), "link") =>
              Len(e.out.requests) = Cardinality(NonBlank(SpiderIndex(e), e.body))

-----------------------------------------------------------------------------
(* C26: the follow-up requests of a LinkExtraction step *)

\* the sibling fields of the link step at index that match in the body
MatchedSiblings(index, body) ==
    {f \in SiblingFields(index) : RawAt(index, body, f) # <<>>}

\* the context before, merged with the sibling values of position i
MergedContext(before, index, body, i) ==
    [k \in DOMAIN before \cup MatchedSiblings(index, body) |->
        IF k \in MatchedSiblings(index, body)
        THEN OwnValue(index, body, k, i)
        ELSE before[k]]

\* C26: every follow-up request emitted by a LinkExtraction step at index i
\* is tagged with step index exactly i + 1, has its url resolved to an
\* absolute URL against the URL of the page, and carries the merged
\* context; exactly one request is emitted per link that survives the
\* truncation, in the order of the links.
C26_FollowUps ==
    \A e \in SplitLinkPages :
        HasRuleAt(LandingOf(e), "link") =>
            LET index == LandingOf(e)
                page == Loads(e.in)
                links == Surviving(index, page.body)
            IN  /\ Len(e.out.start) = Len(links)
                /\ \A i \in 1..Len(e.out.start) :
                      /\ e.out.start[i].meta.workflow_index = index + 1
                      /\ IsAbsolute(e.out.start[i].url)
                      /\ e.out.start[i].url = urljoin(page.url, Strip(links[i]))
                      /\ e.out.start[i].meta.context
                            = MergedContext(IncomingContext(e), index, page.body, i)

\* C26 witness: a page reached through a link has given two requests for
\* its two relative links, tagged with the next index, each with the value
\* of its own position beside what the page came with
C26_Witness ==
    \E e \in SplitLinkPages :
        /\ LandingOf(e) = 2
        /\ Len(e.out.start) = 2
        /\ e.out.start[2].url = <<"http://h", "/d">>
        /\ e.out.start[2].meta.workflow_index = 3
        /\ e.out.start[2].meta.context.section = <<"S2">>
        /\ e.out.start[2].meta.context.title = <<"T1">>

-----------------------------------------------------------------------------
(* C27: pairing of links and sibling values *)

\* the value a request carries for a field: the empty text when the
\* request has no entry for it
CarriedValue(request, f) == Get(ContextOf(request), f, <<>>)

\* the positions, in order, of the links the spider builds requests from
SpiderPositions(index, body) == Ascending(NonBlank(index, body))

\* C27: for the follow-up built from the link at position i, the context
\* value of each sibling field is the value of the sibling sequence at
\* position i when the sequence is that long, and otherwise the last value
\* of the sequence, never a value from a wrapped-around position; in the
\* split mode and in the spider.
C27_IndexClamp ==
    /\ \A e \in SplitLinkPages :
          HasRuleAt(LandingOf(e), "link") =>
              \A i \in 1..Len(e.out.start) :
                  \A f \in MatchedSiblings(LandingOf(e), Loads(e.in).body) :
                      CarriedValue(e.out.start[i], f)
                          = OwnValue(LandingOf(e), Loads(e.in).body, f, i)
    /\ \A e \in SpiderLinkPages :
          HasRuleAt(SpiderIndex(e), "link") =>
              /\ Len(e.out.requests) = Len(SpiderPositions(SpiderIndex(e), e.body))
              /\ \A k \in 1..Len(e.out.requests) :
                    \A f \in MatchedSiblings(SpiderIndex(e), e.body) :
                        CarriedValue(e.out.requests[k], f)
                            = OwnValue(SpiderIndex(e), e.body, f,
                                       SpiderPositions(SpiderIndex(e), e.body)[k])

\* C27 witness: on a page with three links and two sibling values both
\* engines have given the third link the second value, the last one
C27_Witness ==
    /\ \E e \in SplitLinkPages :
          /\ Loads(e.in).body = "listGap"
          /\ Len(e.out.start) = 3
          /\ CarriedValue(e.out.start[3], "title") = <<"T2">>
          /\ CarriedValue(e.out.start[1], "title") = <<>>
    /\ \E e \in SpiderLinkPages :
          /\ e.body = "listGap"
          /\ Len(e.out.requests) = 3
          /\ CarriedValue(e.out.requests[3], "title") = <<"T2">>

-----------------------------------------------------------------------------
(* C28: where the record of a DataExtraction step goes *)

\* the step that handles entry e is the last step and has no hook
Terminal(e) ==
    /\ LandingOf(e) = Len(cfg.workflowSteps) - 1
    /\ HookOf(LandingOf(e)) = ""

\* the links under which the records handed to the database are saved
HandedLinks == {SaveArgs(e.out.db[1]).link : e \in {x \in DataPages : x.out.db # <<>>}}

\* C28: an extracted record is handed to persistence, the database when
\* one is configured, only if its DataExtraction step is the last step of
\* the workflow and no hook is configured; in every other case the record
\* is pushed to the data list and the database is not written.
C28_TerminalRouting ==
    /\ \A e \in DataPages :
          /\ e.out.db # <<>> => Terminal(e) /\ hasDb
          /\ (Terminal(e) /\ hasDb) => e.out.db = <<RecordOf(e)>> /\ e.out.data = <<>>
          /\ ~(Terminal(e) /\ hasDb) => e.out.data = <<RecordOf(e)>> /\ e.out.db = <<>>
    /\ \A i \in 1..Len(mysql) : mysql[i].link \in HandedLinks
    /\ Len(dataQ) = Cardinality({e \in DataPages : e.out.data # <<>>})

\* C28 witness: with a database, the record of a step with a hook went to
\* the data list and the record of the last step, reached through the
\* hook's request, went to the database
C28_Witness ==
    /\ hasDb
    /\ \E e \in DataPages : ~Terminal(e) /\ HookOf(LandingOf(e)) # ""
                            /\ e.out.data # <<>>
    /\ \E e \in DataPages : Terminal(e) /\ e.out.db # <<>> /\ SaveReturned(e)
    /\ Len(dataQ) = 1
    /\ Len(mysql) = 1

-----------------------------------------------------------------------------
(* C29: a LinkExtraction step emits requests only *)

\* the entries the processing stage adds to its history in this step
NewlyProcessed == procLog' \ procLog

\* C29: processing a fetch record at a LinkExtraction step emits zero or
\* more follow-up requests and no extracted record: the step that processes
\* it leaves the data list and the database as they are and appends only
\* its requests to the start list, also when a DataExtraction step follows
\* in the step list.
C29_PureFanOut ==
    [][\A e \in NewlyProcessed :
          (e.in.kind = "json" /\ AtStep(e, "link_extraction")) =>
              /\ e.out.db = <<>>
              /\ e.out.data = <<>>
              /\ dataQ' = dataQ
              /\ mysql' = mysql
              /\ errorQ' = errorQ
              /\ startQ' = startQ \o DumpsAll(e.out.start)]_vars

\* C29 witness: a page was processed at a LinkExtraction step that is
\* followed by a DataExtraction step, its requests are on the start list
\* and there is no record anywhere
C29_Witness ==
    /\ cfg = CfgE2E
    /\ \E e \in SplitLinkPages : Len(e.out.start) = 2 /\ startQ = DumpsAll(e.out.start)
    /\ dataQ = <<>>
    /\ mysql = <<>>
    /\ DataPages = {}

-----------------------------------------------------------------------------
(* C30: a LinkExtraction step without a link rule *)

-----------------------------------------------------------------------------
(* C31: a Request step is passed through *)

\* the step index a processed record came with, and the page it holds
IndexOf(e) == Get(Get(Loads(e.in), "meta", EmptyDict), "workflow_index", 0)

PageOf(e) ==
    [selector |-> Loads(e.in).body, url |-> Loads(e.in).url,
     body |-> Loads(e.in).body, context |-> IncomingContext(e)]

SpiderPageOf(e) ==
    [selector |-> e.body, url |-> e.in.url, body |-> e.body, meta |-> e.in.meta]

IsRequestStep(index) ==
    index < Len(cfg.workflowSteps) /\ cfg.workflowSteps[index + 1].type = "request"

\* what the step at index j does with a page when the page is handed to it
\* directly: nothing when j is behind the last step
HandledAt(page, j) ==
    IF j >= Len(cfg.workflowSteps) THEN NoEffects
    ELSE IF cfg.workflowSteps[j + 1].type = "link_extraction"
    THEN Effects(<<>>, <<>>, _handle_link_extraction(cfg.workflowSteps[j + 1], page, j), "")
    ELSE _handle_data_extraction(cfg.workflowSteps[j + 1], page, j)

SpiderHandledAt(page, j) ==
    IF j >= Len(cfg.workflowSteps) THEN Yield(<<>>, <<>>, FALSE)
    ELSE IF cfg.workflowSteps[j + 1].type = "link_extraction"
    THEN Yield(<<>>, spider_handle_link_extraction(cfg.workflowSteps[j + 1], page, j + 1),
               FALSE)
    ELSE spider_handle_data_extraction(cfg.workflowSteps[j + 1], page, j + 1)

\* C31: a Request step reached by the step machine at any index is a
\* transparent pass-through: a page that arrives with the index of a Request
\* step is handled by the next step that is no Request step, with the same
\* page, exactly as if it had arrived with that step's index, and the
\* Request step itself adds no request, no record and no error (the only
\* errors are those of the handling step: a failed save, a failed hook); in
\* the split mode and in the spider.
C31_RequestPassThrough ==
    /\ \A e \in Processed :
          IsRequestStep(IndexOf(e)) =>
              /\ e.out = HandledAt(PageOf(e), Landing(IndexOf(e) + 1))
              /\ e.out.raised = "" =>
                    \A i \in 1..Len(e.errs) : e.errs[i] = DbErrorEntry(e.out.db[1])
              /\ ~e.crashed
    /\ \A e \in spLog :
          (e.called /\ IsRequestStep(Get(e.in.meta, "workflow_index", 0))) =>
              e.out = SpiderHandledAt(SpiderPageOf(e),
                                      Landing(Get(e.in.meta, "workflow_index", 0) + 1))

\* C31 witness: in both engines a page that came with index 2, a Request
\* step between the link step and the data step, gave the record of the
\* data step and nothing else
C31_Witness ==
    /\ cfg = CfgReqMid
    /\ \E e \in Processed :
          /\ IndexOf(e) = 2
          /\ Len(Emitted(e)) = 1
          /\ Emitted(e)[1].data = [title |-> <<"X">>]
          /\ e.out.start = <<>>
    /\ \E e \in spLog :
          /\ e.called /\ Get(e.in.meta, "workflow_index", 0) = 2
          /\ Len(e.out.items) = 1
          /\ e.out.requests = <<>>

-----------------------------------------------------------------------------
(* C32: a step index behind the last step *)

\* the entries the spider adds to its history in this step
NewlyCrawled == spLog' \ spLog

BehindLastStep(index) == index >= Len(cfg.workflowSteps)

\* C32: a fetch record whose step index is greater than or equal to the
\* number of steps ends its branch silently: the step that processes it
\* appends nothing to the start list, the data list and the error list,
\* writes nothing to the database and raises nothing; in the spider the
\* callback yields nothing for such a response.
C32_SilentEnd ==
    [][/\ \A e \in NewlyProcessed :
             (e.in.kind = "json" /\ BehindLastStep(IndexOf(e))) =>
                 /\ e.out = NoEffects
                 /\ e.errs = <<>>
                 /\ ~e.crashed
                 /\ startQ' = startQ
                 /\ dataQ' = dataQ
                 /\ errorQ' = errorQ
                 /\ mysql' = mysql
       /\ \A e \in NewlyCrawled :
             (e.called /\ BehindLastStep(Get(e.in.meta, "workflow_index", 0))) =>
                 /\ e.out = Yield(<<>>, <<>>, FALSE)
                 /\ spQ' = Tail(spQ)]_vars

\* C32 witness: the hook of the last step asked for one more page, the page
\* came back with index 2 for a list of two steps, both engines have
\* processed it, and no list holds anything for it
C32_Witness ==
    /\ cfg = CfgLastHook
    /\ \E e \in Processed : IndexOf(e) = 2 /\ e.out = NoEffects
    /\ \E e \in spLog : e.called /\ Get(e.in.meta, "workflow_index", 0) = 2
                        /\ e.out.requests = <<>> /\ e.out.items = <<>>
    /\ Quiescent
    /\ spQ = <<>>
    /\ errorQ = <<>>

-----------------------------------------------------------------------------
(* C33: an expression that matches nothing *)

\* the rules of a list whose expression is not empty and matches nothing in
\* the body
MissRules(rules, body) ==
    {i \in 1..Len(rules) :
        rules[i].expression # "" /\ GetAll(body, rules[i].expression) = <<>>}

\* C33: for a rule with a non-empty expression that matches nothing on the
\* page, extraction returns the empty string when multiple is false and the
\* empty sequence when multiple is true; a miss is never an error and never
\* another value: in both engines the record of a page has these values
\* under the names of such rules.
C33_ExtractionMiss ==
    /\ \A e \in DataPages :
          LET rules == RulesAt(LandingOf(e), "extractionRules")
          IN  \A i \in MissRules(rules, Loads(e.in).body) :
                  /\ Len(Emitted(e)) = 1
                  /\ Emitted(e)[1].data[rules[i].fieldName] = EmptyValue(rules[i])
    /\ \A e \in SpiderDataPages :
          LET rules == RulesAt(SpiderIndex(e), "extractionRules")
          IN  \A i \in MissRules(rules, e.body) :
                  /\ Len(e.out.items) = 1
                  /\ e.out.items[1].extra[rules[i].fieldName] = EmptyValue(rules[i])

-----------------------------------------------------------------------------
(* C34: the order of the encoding cascade *)

\* a charset name that Python has a text codec for, or that is an alias
ValidCharset(name) ==
    name # "" /\ (Alias(Lower(name)) # "" \/ PyCodec(Lower(name)) # "lookup")

\* the name a valid charset is reported under
Canonical(name) == IF Alias(Lower(name)) # "" THEN Alias(Lower(name)) ELSE Lower(name)

\* the charset parameter of the Content-Type header, "" when there is none
HeaderCharset(headers) ==
    IF \E k \in DOMAIN headers : "charset" \in DOMAIN headers[k]
    THEN headers[CHOOSE k \in DOMAIN headers : "charset" \in DOMAIN headers[k]].charset
    ELSE ""

\* the charset the first meta tag within the first 2048 bytes declares
RECURSIVE MetaCharset(_)
MetaCharset(content) ==
    IF content = <<>> \/ Head(content) = "pad2048" THEN ""
    ELSE IF Head(content) \in DOMAIN Declared THEN Declared[Head(content)]
    ELSE MetaCharset(Tail(content))

\* the stage of the cascade that decides, and what it reports
CascadeStage(content, headers, detected) ==
    IF ValidCharset(HeaderCharset(headers)) THEN "header"
    ELSE IF ValidCharset(MetaCharset(content)) THEN "meta"
    ELSE IF content # <<>> /\ detected.encoding # "" THEN "chardet"
    ELSE "default"

Cascade(content, headers, detected) ==
    CASE CascadeStage(content, headers, detected) = "header" ->
            [encoding |-> Canonical(HeaderCharset(headers)), confidence |-> 100,
             source |-> "Content-Type header"]
      [] CascadeStage(content, headers, detected) = "meta" ->
            [encoding |-> Canonical(MetaCharset(content)), confidence |-> 95,
             source |-> "HTML meta tag"]
      [] CascadeStage(content, headers, detected) = "chardet" ->
            [encoding |-> detected.encoding, confidence |-> detected.confidence,
             source |-> "chardet detection"]
      [] OTHER ->
            [encoding |-> "utf-8", confidence |-> 0, source |-> "default"]

-----------------------------------------------------------------------------
(* C35: the encoding a step names *)

\* decoding the body with the named encoding gives a text
OverrideDecodes == eh.content = <<>> \/ PyCodec(eh.override) = "replace"

\* C35: when an override codec is given and decoding with it fails,
\* resolution falls through to the automatic cascade and returns text
\* without raising; when decoding with the override succeeds, the override
\* wins over header, meta and statistical detection.
C35_Override ==
    (eh.pc # "off" /\ eh.override # "") =>
        /\ eh.pc # "raised"
        /\ (eh.pc = "done" /\ OverrideDecodes) =>
              /\ eh.info.source = "manual"
              /\ eh.info.encoding = eh.override
              /\ eh.text = Decoded(eh.content, eh.override)
        /\ (eh.pc = "done" /\ ~OverrideDecodes) =>
              /\ eh.info.source = Cascade(eh.content, eh.headers, eh.detected).source
              /\ eh.info.encoding = Cascade(eh.content, eh.headers, eh.detected).encoding
              /\ Len(eh.text) = Len(eh.content)

-----------------------------------------------------------------------------
(* C36: the step index along a lineage *)

\* C36: every follow-up request enqueued while a fetch record with step
\* index i is processed, by link extraction or from a descriptor a hook
\* returned, carries a step index strictly greater than i (so that a
\* lineage performs at most len(steps) fetches and the pipeline comes to
\* rest).
C36_IndexIncreases ==
    \A e \in Processed :
        \A i \in 1..Len(e.out.start) :
            e.out.start[i].meta.workflow_index > IndexOf(e)

-----------------------------------------------------------------------------
(* C37: the fetch stage and the meta of a request *)

\* a message of the start list that is a request with a url
HasUrl(m) == m.kind = "json" /\ Truthy(Get(Loads(m), "url", None))

RequestMeta(m) == Get(Loads(m), "meta", EmptyDict)

\* the step index and the context of a meta
Carried(meta) == [k \in DOMAIN meta \cap {"workflow_index", "context"} |-> meta[k]]

\* C37: for every message of the start list with a non-empty url that the
\* fetch stage has taken and handled, exactly one fetch record was pushed to
\* the success list, and the meta of that record (step index and context)
\* is the meta of the request, whether the fetch succeeded or failed.
C37_MetaPreserved ==
    \A e \in fetchLog :
        HasUrl(e.in) =>
            /\ e.fate = "pushed"
            /\ Len(e.out) = 1
            /\ Carried(e.out[1].meta) = Carried(RequestMeta(e.in))

-----------------------------------------------------------------------------
(* C38: the status of a fetch record *)

\* the records the fetch stage has pushed, with their requests
Pushed == {e \in fetchLog : e.fate = "pushed"}

\* how the last call made for the request of entry e ended
LastOutcome(e) == Outcome(Loads(e.in).url, e.attempts - 1)

\* the HTTP call for the request of entry e returned a response
Answered(e) == e.attempts > 0 /\ LastOutcome(e).kind = "response"

\* C38: whenever the HTTP call returns a response, of any status code
\* including 4xx and 5xx, the fetch record that is pushed carries the status
\* code, the headers and the body of that response; status 0 with an empty
\* body appears only when no response was obtained after all attempts.
C38_StatusFidelity ==
    \A e \in Pushed :
        /\ Answered(e) =>
              /\ e.out[1].status = LastOutcome(e).response.status
              /\ e.out[1].headers = LastOutcome(e).response.headers
              /\ e.out[1].body = LastOutcome(e).response.body
        /\ e.out[1].status = 0 => ~Answered(e)

-----------------------------------------------------------------------------
(* C39: the error field of a fetch record *)

\* C39: in every fetch record pushed by the fetch stage the error field is
\* non-null if and only if the fetch finally failed (status 0); a request
\* that fails on an early attempt and succeeds on a later one yields a
\* record with a null error.
C39_ErrorField ==
    \A e \in Pushed :
        /\ e.out[1].error # None <=> e.out[1].status = 0
        /\ (Answered(e) /\ LastOutcome(e).response.status = 200) =>
              e.out[1].error = None

-----------------------------------------------------------------------------
(* C40: the two step machines *)

\* the urls and step indices of a sequence of follow-up requests
Targets(requests) ==
    [i \in 1..Len(requests) |->
        [url |-> requests[i].url, index |-> requests[i].meta.workflow_index]]

\* the split mode and the spider have handled the same page (url and body)
\* with the same incoming step index
SamePage(e, s) ==
    /\ s.called
    /\ Loads(e.in).url = s.in.url
    /\ Loads(e.in).body = s.body
    /\ IndexOf(e) = Get(s.in.meta, "workflow_index", 0)

\* C40: for the same step list, page (url and body) and incoming step
\* index, the single-process engine emits the same follow-up URLs with the
\* same next step index, and the same extracted field map, as the
\* split-mode step machine.
C40_EnginesAgree ==
    \A e \in Processed :
        \A s \in spLog :
            SamePage(e, s) =>
                /\ Targets(e.out.start) = Targets(s.out.requests)
                /\ [i \in 1..Len(Emitted(e)) |-> Emitted(e)[i].data]
                      = [i \in 1..Len(s.out.items) |-> s.out.items[i].extra]

====
